---- MODULE Spec2Model ----
(***************************************************************************)
(* NTRIP Atlas: geographic service discovery engine.                       *)
(*                                                                         *)
(* Coordinates (C doubles in the source) are integers in thousandths of a  *)
(* degree, so 0.01 degree rounding and tile flooring are real conversions. *)
(* Stored service bounds are in hundredths of a degree (the *_deg100       *)
(* fields).                                                                *)
(***************************************************************************)
EXTENDS Integers, Sequences, FiniteSets, TLC

VARIABLES
    tileCall,           \* last call of a tile-key / coordinate function and its result
    g_spatial_index,    \* the process-wide spatial index
    catalog,            \* the service array handed to population and search
    populated,          \* population has returned success since the index was initialised
    query,              \* the caller's position and output buffer for lookups
    idxCall,            \* last spatial-index operation and its result
    geoCall,            \* last call of the containment test and its result
    g_compact_failure_state, \* the process-wide compact failure table
    now,                \* time(NULL), seconds since the epoch
    failCall,           \* last failure-tracking operation and its result
    g_geo_blacklist,    \* the process-wide geographic blacklist
    blCall,             \* last blacklist operation and its result
    store,              \* the caller's credential store
    credCall,           \* last credential-store operation and its result
    payCall,            \* last call of the payment-priority functions and its result
    edgeCall,           \* last call of the edge-distance function and its result
    g_sort_user,        \* g_sort_user_latitude and g_sort_user_longitude
    sorter,             \* each thread's call of the in-place filter and sort
    g_tiered_state,     \* the process-wide tiered-loading state
    tierCall,           \* last tiered-loading operation and its result
    expCall             \* last conversion of a failure record and its result

tileVars == <<tileCall>>
idxVars == <<g_spatial_index, catalog, populated, query, idxCall>>
geoVars == <<geoCall>>
failVars == <<g_compact_failure_state, now, failCall>>
blVars == <<g_geo_blacklist, blCall>>
credVars == <<store, credCall>>
payVars == <<payCall>>
edgeVars == <<edgeCall>>
sortVars == <<g_sort_user, sorter>>
tierVars == <<g_tiered_state, tierCall>>
expVars == <<expCall>>
vars == <<tileCall, g_spatial_index, catalog, populated, query, idxCall, geoCall,
          g_compact_failure_state, now, failCall, g_geo_blacklist, blCall,
          store, credCall, payCall, edgeCall, g_sort_user, sorter, g_tiered_state,
          tierCall, expCall>>

\* ------------------------------------------------------------------ helpers

Pow2(n) == 2 ^ n

MinOf(a, b) == IF a < b THEN a ELSE b

\* ------------------------------------------------------------------ constants

SPATIAL_INDEX_MAX_TILES == 4096
SPATIAL_INDEX_MAX_SERVICES_PER_TILE == 64
SPATIAL_INDEX_MAX_LEVELS == 5
TILE_LEVEL_SHIFT == 29
TILE_LAT_SHIFT == 13
TILE_LAT_MASK == 8191
TILE_LON_MASK == 8191
TILE_LEVEL_MASK == 7

\* ------------------------------------------------------------------ tile keys

\* x & mask for a mask of the form 2^k - 1
BitAnd(x, mask) == x % (mask + 1)

\* A ntrip_tile_key_t (uint32_t) is held as two 16-bit halves <<high, low>>,
\* the value being high * 65536 + low.
Key32(high, low) == <<high, low>>
ZeroKey == Key32(0, 0)
KeyLess(k1, k2) == k1[1] < k2[1] \/ (k1[1] = k2[1] /\ k1[2] < k2[2])

\* key + 1 and key - 1 in uint32_t
KeyInc(k) == IF k[2] = 65535 THEN Key32((k[1] + 1) % 65536, 0) ELSE Key32(k[1], k[2] + 1)
KeyDec(k) == IF k[2] = 0 THEN Key32((k[1] + 65535) % 65536, 65535) ELSE Key32(k[1], k[2] - 1)

\* (level & mask) << 29 | (lat_tile & mask) << 13 | (lon_tile & mask): the
\* three fields occupy disjoint bits, so the bitwise OR is their sum
PackFields(level, lat_tile, lon_tile) ==
    LET low29 == BitAnd(lat_tile, TILE_LAT_MASK) * Pow2(TILE_LAT_SHIFT)
                 + BitAnd(lon_tile, TILE_LON_MASK)
    IN Key32(BitAnd(level, TILE_LEVEL_MASK) * Pow2(TILE_LEVEL_SHIFT - 16)
                 + (low29 \div 65536),
             low29 % 65536)

\* Mutant: the +1 bias is left out, so tile (0,0,0) encodes to the invalid key.
EncodeNoBias(level, lat_tile, lon_tile) ==
    IF level >= SPATIAL_INDEX_MAX_LEVELS THEN ZeroKey
    ELSE IF lat_tile >= 2 * Pow2(level) THEN ZeroKey
    ELSE IF lon_tile >= 4 * Pow2(level) THEN ZeroKey
    ELSE PackFields(level, lat_tile, lon_tile)

ntrip_atlas_encode_tile_key(level, lat_tile, lon_tile) ==
    IF level >= SPATIAL_INDEX_MAX_LEVELS THEN ZeroKey
    ELSE IF lat_tile >= 2 * Pow2(level) THEN ZeroKey
    ELSE IF lon_tile >= 4 * Pow2(level) THEN ZeroKey
    ELSE KeyInc(PackFields(level, lat_tile, lon_tile))

ntrip_atlas_decode_tile_key(key) ==
    IF key = ZeroKey THEN [level |-> 0, lat_tile |-> 0, lon_tile |-> 0]
    ELSE LET k == KeyDec(key)
         IN [level |-> BitAnd(k[1] \div Pow2(TILE_LEVEL_SHIFT - 16), TILE_LEVEL_MASK),
             lat_tile |-> BitAnd(k[1] * Pow2(16 - TILE_LAT_SHIFT)
                                 + (k[2] \div Pow2(TILE_LAT_SHIFT)), TILE_LAT_MASK),
             lon_tile |-> BitAnd(k[2], TILE_LON_MASK)]

\* Mutant: the clamp to the level's last tile is left out.
LatLonToTileNoClamp(lat, lon, level) ==
    IF level >= SPATIAL_INDEX_MAX_LEVELS
    THEN [err |-> "INVALID_PARAM", tile_lat |-> 0, tile_lon |-> 0]
    ELSE IF lat < -90000 \/ lat > 90000 \/ lon < -180000 \/ lon > 180000
    THEN [err |-> "INVALID_PARAM", tile_lat |-> 0, tile_lon |-> 0]
    ELSE [err |-> "SUCCESS",
          tile_lat |-> ((lat + 90000) * (2 * Pow2(level))) \div 180000,
          tile_lon |-> ((lon + 180000) * (4 * Pow2(level))) \div 360000]

\* lat, lon in thousandths of a degree; the (uint16_t) cast of the
\* non-negative quotient is a floor.
ntrip_atlas_lat_lon_to_tile(lat, lon, level) ==
    IF level >= SPATIAL_INDEX_MAX_LEVELS
    THEN [err |-> "INVALID_PARAM", tile_lat |-> 0, tile_lon |-> 0]
    ELSE IF lat < -90000 \/ lat > 90000 \/ lon < -180000 \/ lon > 180000
    THEN [err |-> "INVALID_PARAM", tile_lat |-> 0, tile_lon |-> 0]
    ELSE LET lat_tiles == 2 * Pow2(level)
             lon_tiles == 4 * Pow2(level)
             norm_lat == lat + 90000
             norm_lon == lon + 180000
             t_lat == (norm_lat * lat_tiles) \div 180000
             t_lon == (norm_lon * lon_tiles) \div 360000
         IN [err |-> "SUCCESS",
             tile_lat |-> IF t_lat >= lat_tiles THEN lat_tiles - 1 ELSE t_lat,
             tile_lon |-> IF t_lon >= lon_tiles THEN lon_tiles - 1 ELSE t_lon]

\* ------------------------------------------------------------------ bounds of the tile-function inputs

MaxLevelArg == 6        \* level arguments 0..MaxLevelArg (5 and above are invalid)
MaxTileArg == 65        \* tile arguments 0..MaxTileArg (level 4 has 32 x 64 tiles)

LevelArgs == 0..MaxLevelArg

\* uint16_t tile arguments: every valid index, the first invalid ones, and
\* values at the 13-bit mask and the type's limit
TileArgs == (0..MaxTileArg) \cup {8191, 8192, 8193, 65535}

\* latitudes / longitudes at every level-4 tile edge and one step either
\* side; the first and last fall outside the valid range
LatArgs == {-90000 + 5625 * i + d : i \in 0..32, d \in {-1, 0, 1}}
LonArgs == {-180000 + 11250 * i + d : i \in 0..32, d \in {-1, 0, 1}}

NoTileCall == [op |-> "none", level |-> 0, a |-> 0, b |-> 0, key |-> ZeroKey,
               dec |-> [level |-> 0, lat_tile |-> 0, lon_tile |-> 0],
               res |-> [err |-> "SUCCESS", tile_lat |-> 0, tile_lon |-> 0]]

\* the calls to make: the arguments are drawn, the result is still to come
EncodeInputs ==
    {[NoTileCall EXCEPT !.op = "call_encode", !.level = level, !.a = lat_tile, !.b = lon_tile] :
        level \in LevelArgs, lat_tile \in TileArgs, lon_tile \in TileArgs}
ToTileInputs ==
    {[NoTileCall EXCEPT !.op = "call_to_tile", !.level = level, !.a = lat, !.b = lon] :
        level \in LevelArgs, lat \in LatArgs, lon \in LonArgs}

\* encode a triple and decode the key again
EncodeCall ==
    /\ tileCall.op = "call_encode"
    /\ LET key == ntrip_atlas_encode_tile_key(tileCall.level, tileCall.a, tileCall.b)
       IN tileCall' = [tileCall EXCEPT !.op = "encode", !.key = key,
                           !.dec = ntrip_atlas_decode_tile_key(key)]
    /\ UNCHANGED <<idxVars, geoVars, failVars, blVars, credVars, payVars, edgeVars, sortVars, tierVars, expVars>>

ToTileCall ==
    /\ tileCall.op = "call_to_tile"
    /\ tileCall' = [tileCall EXCEPT !.op = "to_tile",
                        !.res = ntrip_atlas_lat_lon_to_tile(tileCall.a, tileCall.b,
                                                            tileCall.level)]
    /\ UNCHANGED <<idxVars, geoVars, failVars, blVars, credVars, payVars, edgeVars, sortVars, tierVars, expVars>>

\* ------------------------------------------------------------------ spatial index

\* memset(&g_spatial_index, 0, ...): no tiles; tile_count is Len(tiles)
ZeroIndex == [initialized |-> FALSE, tiles |-> <<>>]

ntrip_atlas_init_spatial_index == [initialized |-> TRUE, tiles |-> <<>>]

\* the while loop of find_tile_by_key, left and right 0-based as in the source;
\* the result is the 1-based position of the tile, 0 for NULL
RECURSIVE BinarySearch(_, _, _, _)
BinarySearch(tiles, key, left, right) ==
    IF left > right THEN 0
    ELSE LET mid == left + (right - left) \div 2
         IN IF tiles[mid + 1].key = key THEN mid + 1
            ELSE IF KeyLess(tiles[mid + 1].key, key)
                 THEN BinarySearch(tiles, key, mid + 1, right)
                 ELSE BinarySearch(tiles, key, left, mid - 1)

find_tile_by_key(idx, key) ==
    IF ~idx.initialized \/ Len(idx.tiles) = 0 THEN 0
    ELSE BinarySearch(idx.tiles, key, 0, Len(idx.tiles) - 1)

\* the insertion-point loop as written: the first position whose key is not
\* below tile_key, tile_count when there is none (0-based)
InsertPosScan(tiles, tile_key) ==
    LET ge == {p \in 1..Len(tiles) : ~KeyLess(tiles[p].key, tile_key)}
    IN IF ge = {} THEN Len(tiles)
       ELSE (CHOOSE p \in ge : \A q \in ge : p <= q) - 1

\* the position at which that loop stops, found by bisection between lo and
\* hi: the loop runs only after the binary search has missed, over an array
\* in ascending key order, where the two agree (InsertPosAgrees checks it)
RECURSIVE InsertPosBetween(_, _, _, _)
InsertPosBetween(tiles, tile_key, lo, hi) ==
    IF lo >= hi THEN lo
    ELSE LET mid == lo + (hi - lo) \div 2
         IN IF KeyLess(tiles[mid + 1].key, tile_key)
            THEN InsertPosBetween(tiles, tile_key, mid + 1, hi)
            ELSE InsertPosBetween(tiles, tile_key, lo, mid)

\* Mutant: a new tile is appended after the last one, whatever its key.
InsertPosAtEnd(tiles, tile_key) == Len(tiles)

InsertPos(tiles, tile_key) == InsertPosBetween(tiles, tile_key, 0, Len(tiles))

\* memmove of the tail and initialisation of the new, empty tile
InsertTile(tiles, pos, tile_key) ==
    SubSeq(tiles, 1, pos) \o <<[key |-> tile_key, service_indices |-> <<>>]>>
        \o SubSeq(tiles, pos + 1, Len(tiles))

InSeq(x, seq) == \E i \in 1..Len(seq) : seq[i] = x

\* Mutant: the capacity checks come after the store, so a full tile or a
\* full index is changed before the error is returned.
AddServiceCheckLate(idx, tile_key, service_index) ==
    IF ~idx.initialized THEN [err |-> "PLATFORM", idx |-> idx]
    ELSE LET found == find_tile_by_key(idx, tile_key)
             pos == IF found = 0 THEN InsertPos(idx.tiles, tile_key) + 1 ELSE found
             tiles1 == IF found = 0 THEN InsertTile(idx.tiles, pos - 1, tile_key)
                       ELSE idx.tiles
             tiles2 == [tiles1 EXCEPT ![pos].service_indices =
                            Append(tiles1[pos].service_indices, service_index)]
         IN IF found = 0 /\ Len(idx.tiles) >= SPATIAL_INDEX_MAX_TILES
            THEN [err |-> "SPATIAL_INDEX_FULL", idx |-> [idx EXCEPT !.tiles = tiles1]]
            ELSE IF InSeq(service_index, tiles1[pos].service_indices)
            THEN [err |-> "SUCCESS", idx |-> [idx EXCEPT !.tiles = tiles1]]
            ELSE IF Len(tiles1[pos].service_indices) < SPATIAL_INDEX_MAX_SERVICES_PER_TILE
            THEN [err |-> "SUCCESS", idx |-> [idx EXCEPT !.tiles = tiles2]]
            ELSE [err |-> "TILE_FULL", idx |-> [idx EXCEPT !.tiles = tiles2]]

\* returns the error code and the index after the call
ntrip_atlas_add_service_to_tile(idx, tile_key, service_index) ==
    IF ~idx.initialized THEN [err |-> "PLATFORM", idx |-> idx]
    ELSE LET found == find_tile_by_key(idx, tile_key)
         IN IF found = 0 /\ Len(idx.tiles) >= SPATIAL_INDEX_MAX_TILES
            THEN [err |-> "SPATIAL_INDEX_FULL", idx |-> idx]
            ELSE LET pos == IF found = 0 THEN InsertPos(idx.tiles, tile_key) + 1
                            ELSE found
                     tiles1 == IF found = 0
                               THEN InsertTile(idx.tiles, pos - 1, tile_key)
                               ELSE idx.tiles
                     tile == tiles1[pos]
                 IN IF InSeq(service_index, tile.service_indices)
                    THEN [err |-> "SUCCESS", idx |-> [idx EXCEPT !.tiles = tiles1]]
                    ELSE IF Len(tile.service_indices) < SPATIAL_INDEX_MAX_SERVICES_PER_TILE
                    THEN [err |-> "SUCCESS",
                          idx |-> [idx EXCEPT !.tiles =
                                     [tiles1 EXCEPT ![pos].service_indices =
                                         Append(tile.service_indices, service_index)]]]
                    ELSE [err |-> "TILE_FULL", idx |-> [idx EXCEPT !.tiles = tiles1]]

\* memcpy of the first count indices into the caller's buffer
Prefix(seq, n) == SubSeq(seq, 1, MinOf(Len(seq), n))

\* Mutant: the levels are tried coarsest first.
RECURSIVE FindFastCoarseFirst(_, _, _, _, _)
FindFastCoarseFirst(idx, user_lat, user_lon, max_services, level) ==
    IF level > 4 THEN <<>>
    ELSE LET t == ntrip_atlas_lat_lon_to_tile(user_lat, user_lon, level)
             key == ntrip_atlas_encode_tile_key(level, t.tile_lat, t.tile_lon)
             found == find_tile_by_key(idx, key)
         IN IF t.err = "SUCCESS" /\ found # 0
                /\ Len(idx.tiles[found].service_indices) > 0
            THEN Prefix(idx.tiles[found].service_indices, max_services)
            ELSE FindFastCoarseFirst(idx, user_lat, user_lon, max_services, level + 1)

FindFastCoarsestFirst(idx, user_lat, user_lon, service_indices, max_services) ==
    IF ~service_indices \/ ~idx.initialized THEN <<>>
    ELSE FindFastCoarseFirst(idx, user_lat, user_lon, max_services, 0)

\* the for loop of ntrip_atlas_find_services_by_location_fast from `level` down
RECURSIVE FindFastFrom(_, _, _, _, _)
FindFastFrom(idx, user_lat, user_lon, max_services, level) ==
    IF level < 0 THEN <<>>
    ELSE LET t == ntrip_atlas_lat_lon_to_tile(user_lat, user_lon, level)
         IN IF t.err # "SUCCESS"
            THEN FindFastFrom(idx, user_lat, user_lon, max_services, level - 1)
            ELSE LET key == ntrip_atlas_encode_tile_key(level, t.tile_lat, t.tile_lon)
                     found == find_tile_by_key(idx, key)
                 IN IF found # 0 /\ Len(idx.tiles[found].service_indices) > 0
                    THEN Prefix(idx.tiles[found].service_indices, max_services)
                    ELSE FindFastFrom(idx, user_lat, user_lon, max_services, level - 1)

\* service_indices is the caller's buffer: TRUE when non-null; the result is
\* the sequence written to it (its length is the returned count)
ntrip_atlas_find_services_by_location_fast(idx, user_lat, user_lon, service_indices, max_services) ==
    IF ~service_indices \/ ~idx.initialized THEN <<>>
    ELSE FindFastFrom(idx, user_lat, user_lon, max_services, 4)

\* ------------------------------------------------------------------ geographic verifier

\* a catalog record: the bounding box in hundredths of a degree and the rating
Service(lat_min, lat_max, lon_min, lon_max, quality) ==
    [lat_min_deg100 |-> lat_min, lat_max_deg100 |-> lat_max,
     lon_min_deg100 |-> lon_min, lon_max_deg100 |-> lon_max,
     quality_rating |-> quality]

NULL == [null |-> TRUE]

\* round(x * 100.0) for x in thousandths of a degree: C's round() takes
\* halfway cases away from zero.  Every coordinate used is within int16_t
\* after scaling, so the cast keeps the value.
RoundDeg100(x) == IF x >= 0 THEN (x + 5) \div 10 ELSE -((-x + 5) \div 10)

\* Mutant: the conversion truncates instead of rounding.
CoverageTruncating(service, user_latitude, user_longitude) ==
    IF service = NULL THEN FALSE
    ELSE LET tr(x) == IF x >= 0 THEN x \div 10 ELSE -((-x) \div 10)
             user_lat_deg100 == tr(user_latitude)
             user_lon_deg100 == tr(user_longitude)
         IN /\ user_lat_deg100 >= service.lat_min_deg100
            /\ user_lat_deg100 <= service.lat_max_deg100
            /\ user_lon_deg100 >= service.lon_min_deg100
            /\ user_lon_deg100 <= service.lon_max_deg100

ntrip_atlas_is_location_within_service_coverage(service, user_latitude, user_longitude) ==
    IF service = NULL THEN FALSE
    ELSE LET user_lat_deg100 == RoundDeg100(user_latitude)
             user_lon_deg100 == RoundDeg100(user_longitude)
             lat_in_range == /\ user_lat_deg100 >= service.lat_min_deg100
                             /\ user_lat_deg100 <= service.lat_max_deg100
             lon_in_range == /\ user_lon_deg100 >= service.lon_min_deg100
                             /\ user_lon_deg100 <= service.lon_max_deg100
         IN lat_in_range /\ lon_in_range

\* the verification loop over spatial_candidates[i..], with the services
\* verified so far
RECURSIVE VerifyFrom(_, _, _, _, _, _, _)
VerifyFrom(cands, i, verified, user_lat, user_lon, services, max_services) ==
    IF i > Len(cands) \/ Len(verified) >= max_services THEN verified
    ELSE LET service_idx == cands[i]
         IN IF service_idx >= Len(services)
            THEN VerifyFrom(cands, i + 1, verified, user_lat, user_lon,
                            services, max_services)
            ELSE IF ntrip_atlas_is_location_within_service_coverage(
                        services[service_idx + 1], user_lat, user_lon)
            THEN VerifyFrom(cands, i + 1, Append(verified, service_idx),
                            user_lat, user_lon, services, max_services)
            ELSE VerifyFrom(cands, i + 1, verified, user_lat, user_lon,
                            services, max_services)

\* Mutant: the containment check is dropped, every in-range candidate is kept.
FindSpatialUnverified(idx, user_lat, user_lon, services, found_services, max_services) ==
    IF ~found_services \/ Len(services) = 0 THEN <<>>
    ELSE LET cands == ntrip_atlas_find_services_by_location_fast(
                          idx, user_lat, user_lon, TRUE, 16)
         IN Prefix(SelectSeq(cands, LAMBDA c : c < Len(services)), max_services)

\* services is the catalog array (service_count is its length, empty when the
\* pointer is null), found_services the caller's buffer: TRUE when non-null
ntrip_atlas_find_services_spatial_geographic(idx, user_lat, user_lon, services, found_services, max_services) ==
    IF ~found_services \/ Len(services) = 0 THEN <<>>
    ELSE LET spatial_candidates == ntrip_atlas_find_services_by_location_fast(
                                       idx, user_lat, user_lon, TRUE, 16)
         IN IF Len(spatial_candidates) = 0 THEN <<>>
            ELSE VerifyFrom(spatial_candidates, 1, <<>>, user_lat, user_lon,
                            services, max_services)

\* ------------------------------------------------------------------ build-time population

\* the two nested tile loops of assign_service_to_level, as the tiles numbered
\* lo..hi in row order (w tiles per row) starting at (min_lat, min_lon);
\* acc carries the index and the number of insertions that failed
RECURSIVE AssignTiles(_, _, _, _, _, _, _, _)
AssignTiles(acc, service_index, level, min_lat, min_lon, w, lo, hi) ==
    IF lo > hi THEN acc
    ELSE IF lo = hi
    THEN LET tile_key == ntrip_atlas_encode_tile_key(level, min_lat + (lo \div w),
                                                     min_lon + (lo % w))
             r == ntrip_atlas_add_service_to_tile(acc.idx, tile_key, service_index)
         IN [idx |-> r.idx,
             failed |-> IF r.err = "SUCCESS" THEN acc.failed ELSE acc.failed + 1]
    ELSE LET mid == lo + (hi - lo) \div 2
             first == AssignTiles(acc, service_index, level, min_lat, min_lon, w, lo, mid)
         IN \* the test makes the first half be evaluated before the second
            IF first.failed >= 0
            THEN AssignTiles(first, service_index, level, min_lat, min_lon, w, mid + 1, hi)
            ELSE first

\* Mutant: the service is assigned to the tile of its box's first corner only,
\* the loops over the overlapped tiles are left out.
AssignFirstCornerOnly(acc, service, service_index, level) ==
    LET lo == ntrip_atlas_lat_lon_to_tile(service.lat_min_deg100 * 10,
                                          service.lon_min_deg100 * 10, level)
        r == ntrip_atlas_add_service_to_tile(
                 acc.idx, ntrip_atlas_encode_tile_key(level, lo.tile_lat, lo.tile_lon),
                 service_index)
    IN IF lo.err # "SUCCESS" THEN [err |-> lo.err, idx |-> acc.idx, failed |-> acc.failed]
       ELSE [err |-> "SUCCESS", idx |-> r.idx,
             failed |-> IF r.err = "SUCCESS" THEN acc.failed ELSE acc.failed + 1]

\* the result of each insertion is only counted, and SUCCESS is returned.
assign_service_to_level(acc, service, service_index, level) ==
    LET lat_min == service.lat_min_deg100 * 10
        lat_max == service.lat_max_deg100 * 10
        lon_min == service.lon_min_deg100 * 10
        lon_max == service.lon_max_deg100 * 10
        lo == ntrip_atlas_lat_lon_to_tile(lat_min, lon_min, level)
        hi == ntrip_atlas_lat_lon_to_tile(lat_max, lon_max, level)
        wrap == lon_max < lon_min
        glo == ntrip_atlas_lat_lon_to_tile(-90000, -180000, level)
        ghi == ntrip_atlas_lat_lon_to_tile(90000, 180000, level)
        min_lat_tile == IF wrap THEN glo.tile_lat ELSE lo.tile_lat
        min_lon_tile == IF wrap THEN glo.tile_lon ELSE lo.tile_lon
        max_lat_tile == IF wrap THEN ghi.tile_lat ELSE hi.tile_lat
        max_lon_tile == IF wrap THEN ghi.tile_lon ELSE hi.tile_lon
        h == max_lat_tile - min_lat_tile + 1
        w == max_lon_tile - min_lon_tile + 1
    IN IF lo.err # "SUCCESS" THEN [err |-> lo.err, idx |-> acc.idx, failed |-> acc.failed]
       ELSE IF hi.err # "SUCCESS" THEN [err |-> hi.err, idx |-> acc.idx, failed |-> acc.failed]
       ELSE IF h <= 0 \/ w <= 0 THEN [err |-> "SUCCESS", idx |-> acc.idx, failed |-> acc.failed]
       ELSE LET r == AssignTiles([idx |-> acc.idx, failed |-> acc.failed], service_index,
                                 level, min_lat_tile, min_lon_tile, w, 0, h * w - 1)
            IN [err |-> "SUCCESS", idx |-> r.idx, failed |-> r.failed]

\* the two loops of populate_spatial_index as steps lo..hi, step s being
\* service s \div 5 at level s % 5; stops at the first error
RECURSIVE PopulateSteps(_, _, _, _)
PopulateSteps(acc, services, lo, hi) ==
    IF lo > hi \/ acc.err # "SUCCESS" THEN acc
    ELSE IF lo = hi
    THEN assign_service_to_level(acc, services[(lo \div 5) + 1], (lo \div 5) % 256, lo % 5)
    ELSE LET mid == lo + (hi - lo) \div 2
             first == PopulateSteps(acc, services, lo, mid)
         IN IF first.err # "SUCCESS" THEN first
            ELSE PopulateSteps(first, services, mid + 1, hi)

\* returns the error code, the index after the call, and how many tile
\* insertions returned an error on the way
populate_spatial_index(idx, services) ==
    PopulateSteps([err |-> "SUCCESS", idx |-> idx, failed |-> 0], services,
                  0, 5 * Len(services) - 1)

\* ------------------------------------------------------------------ compact failure tracking

NTRIP_COMPACT_MAX_SERVICES == 255
NTRIP_COMPACT_INVALID_INDEX == 255

\* seconds: 1h, 4h, 12h, 1d, 3d, 1w, 2w, 1 month
g_default_backoff_intervals ==
    <<3600, 14400, 43200, 86400, 259200, 604800, 1209600, 2629746>>

ZeroFailure == [failure_count |-> 0, backoff_level |-> 0, retry_time_hours |-> 0]

\* static storage: all zero, no mapping
ZeroFailureState ==
    [failures |-> [i \in 0..(NTRIP_COMPACT_MAX_SERVICES - 1) |-> ZeroFailure],
     service_mapping |-> <<>>,
     initialized |-> FALSE]

\* time(NULL) / 3600 in uint32_t; the clock and every sum of hours below stay
\* far under 2^32, so the uint32_t arithmetic never wraps
get_current_time_hours(current_seconds) == current_seconds \div 3600

\* service_mapping is the caller's array, mapping_count its length (empty for a
\* null pointer or a zero count)
ntrip_atlas_init_compact_failure_tracking(st, service_mapping) ==
    IF Len(service_mapping) = 0
           \/ Len(service_mapping) > NTRIP_COMPACT_MAX_SERVICES
    THEN [err |-> "INVALID_PARAM", st |-> st]
    ELSE [err |-> "SUCCESS",
          st |-> [failures |-> [i \in 0..(NTRIP_COMPACT_MAX_SERVICES - 1) |-> ZeroFailure],
                  service_mapping |-> service_mapping,
                  initialized |-> TRUE]]

\* Mutant: the backoff level is taken from the counter before it is incremented.
RecordFailureStaleLevel(st, service_index, current_seconds) ==
    IF ~st.initialized \/ service_index >= NTRIP_COMPACT_MAX_SERVICES
    THEN [err |-> "INVALID_PARAM", st |-> st]
    ELSE LET failure == st.failures[service_index]
             count == IF failure.failure_count < 15 THEN failure.failure_count + 1
                      ELSE failure.failure_count
             new_backoff_level == IF failure.failure_count > 8 THEN 8
                                  ELSE failure.failure_count
             backoff_seconds == g_default_backoff_intervals[
                                    IF new_backoff_level = 0 THEN 1 ELSE new_backoff_level]
         IN [err |-> "SUCCESS",
             st |-> [st EXCEPT !.failures[service_index] =
                        [failure_count |-> count,
                         backoff_level |-> new_backoff_level,
                         retry_time_hours |->
                             get_current_time_hours(current_seconds)
                              + ((backoff_seconds + 3599) \div 3600)]]]

\* Mutant: the delay is recomputed by doubling instead of looked up by level.
RecordFailureDoubling(st, service_index, current_seconds) ==
    IF ~st.initialized \/ service_index >= NTRIP_COMPACT_MAX_SERVICES
    THEN [err |-> "INVALID_PARAM", st |-> st]
    ELSE LET failure == st.failures[service_index]
             count == IF failure.failure_count < 15 THEN failure.failure_count + 1
                      ELSE failure.failure_count
             new_backoff_level == IF count > 8 THEN 8 ELSE count
         IN [err |-> "SUCCESS",
             st |-> [st EXCEPT !.failures[service_index] =
                        [failure_count |-> count,
                         backoff_level |-> new_backoff_level,
                         retry_time_hours |->
                             get_current_time_hours(current_seconds)
                              + Pow2(new_backoff_level - 1)]]]

\* Mutant: the failure counter wraps in its 4-bit field instead of saturating.
RecordFailureWrapping(st, service_index, current_seconds) ==
    IF ~st.initialized \/ service_index >= NTRIP_COMPACT_MAX_SERVICES
    THEN [err |-> "INVALID_PARAM", st |-> st]
    ELSE LET failure == st.failures[service_index]
             count == (failure.failure_count + 1) % 16
             new_backoff_level == IF count > 8 THEN 8 ELSE IF count = 0 THEN 1 ELSE count
             backoff_seconds == g_default_backoff_intervals[new_backoff_level]
         IN [err |-> "SUCCESS",
             st |-> [st EXCEPT !.failures[service_index] =
                        [failure_count |-> count,
                         backoff_level |-> new_backoff_level,
                         retry_time_hours |->
                             get_current_time_hours(current_seconds)
                              + ((backoff_seconds + 3599) \div 3600)]]]

\* current_seconds is what time(NULL) returns during the call
ntrip_atlas_record_compact_failure(st, service_index, current_seconds) ==
    IF ~st.initialized \/ service_index >= NTRIP_COMPACT_MAX_SERVICES
    THEN [err |-> "INVALID_PARAM", st |-> st]
    ELSE LET failure == st.failures[service_index]
             count == IF failure.failure_count < 15 THEN failure.failure_count + 1
                      ELSE failure.failure_count
             new_backoff_level == IF count > 8 THEN 8 ELSE count
             \* g_default_backoff_intervals[new_backoff_level - 1], 0-based in C
             backoff_seconds == g_default_backoff_intervals[new_backoff_level]
             current_hours == get_current_time_hours(current_seconds)
             backoff_hours == (backoff_seconds + 3599) \div 3600
         IN [err |-> "SUCCESS",
             st |-> [st EXCEPT !.failures[service_index] =
                        [failure_count |-> count,
                         backoff_level |-> new_backoff_level,
                         retry_time_hours |-> current_hours + backoff_hours]]]

\* Mutant: a success takes one failure off instead of clearing the record.
RecordSuccessDecrement(st, service_index) ==
    IF ~st.initialized \/ service_index >= NTRIP_COMPACT_MAX_SERVICES
    THEN [err |-> "INVALID_PARAM", st |-> st]
    ELSE LET failure == st.failures[service_index]
         IN [err |-> "SUCCESS",
             st |-> [st EXCEPT !.failures[service_index] =
                        IF failure.failure_count <= 1 THEN ZeroFailure
                        ELSE [failure EXCEPT !.failure_count = failure.failure_count - 1]]]

ntrip_atlas_record_compact_success(st, service_index) ==
    IF ~st.initialized \/ service_index >= NTRIP_COMPACT_MAX_SERVICES
    THEN [err |-> "INVALID_PARAM", st |-> st]
    ELSE [err |-> "SUCCESS", st |-> [st EXCEPT !.failures[service_index] = ZeroFailure]]

\* Mutant: the service is still blocked during the hour of its retry time.
BlockedThroughRetryHour(st, service_index, current_seconds) ==
    IF ~st.initialized \/ service_index >= NTRIP_COMPACT_MAX_SERVICES THEN FALSE
    ELSE LET failure == st.failures[service_index]
         IN IF failure.failure_count = 0 THEN FALSE
            ELSE get_current_time_hours(current_seconds) <= failure.retry_time_hours

\* Mutant: a service with failures on record stays blocked until a success
\* clears the record.
BlockedUntilSuccess(st, service_index, current_seconds) ==
    IF ~st.initialized \/ service_index >= NTRIP_COMPACT_MAX_SERVICES THEN FALSE
    ELSE st.failures[service_index].failure_count # 0

ntrip_atlas_is_compact_service_blocked(st, service_index, current_seconds) ==
    IF ~st.initialized \/ service_index >= NTRIP_COMPACT_MAX_SERVICES THEN FALSE
    ELSE LET failure == st.failures[service_index]
         IN IF failure.failure_count = 0 THEN FALSE
            ELSE get_current_time_hours(current_seconds) < failure.retry_time_hours

ntrip_atlas_get_compact_retry_time_hours(st, service_index, current_seconds) ==
    IF ~st.initialized \/ service_index >= NTRIP_COMPACT_MAX_SERVICES THEN 0
    ELSE LET failure == st.failures[service_index]
             current_hours == get_current_time_hours(current_seconds)
         IN IF failure.failure_count = 0 THEN 0
            ELSE IF current_hours >= failure.retry_time_hours THEN 0
            ELSE failure.retry_time_hours - current_hours

\* a service identifier argument: a string, or the null pointer
ServiceId(id) == [null |-> FALSE, id |-> id]
NullId == [null |-> TRUE, id |-> ""]

\* the linear search through the mapping: the first entry with the identifier
ntrip_atlas_get_service_index(st, service_id) ==
    IF ~st.initialized \/ service_id.null THEN NTRIP_COMPACT_INVALID_INDEX
    ELSE LET hits == {i \in 1..Len(st.service_mapping) :
                         st.service_mapping[i].service_id = service_id.id}
         IN IF hits = {} THEN NTRIP_COMPACT_INVALID_INDEX
            ELSE st.service_mapping[CHOOSE i \in hits : \A j \in hits : i <= j].service_index

\* Mutant: a service without a known index is skipped.
SkipUnknownService(st, service_id, current_seconds) ==
    IF service_id.null THEN TRUE
    ELSE LET service_index == ntrip_atlas_get_service_index(st, service_id)
         IN IF service_index = NTRIP_COMPACT_INVALID_INDEX THEN TRUE
            ELSE ntrip_atlas_is_compact_service_blocked(st, service_index, current_seconds)

ntrip_atlas_should_skip_service(st, service_id, current_seconds) ==
    IF service_id.null THEN FALSE
    ELSE LET service_index == ntrip_atlas_get_service_index(st, service_id)
         IN IF service_index = NTRIP_COMPACT_INVALID_INDEX THEN FALSE
            ELSE ntrip_atlas_is_compact_service_blocked(st, service_index, current_seconds)

\* the for loop of ntrip_atlas_filter_blocked_services from position i (1-based)
\* with the services copied so far
RECURSIVE FilterFrom(_, _, _, _, _, _)
FilterFrom(st, services, i, filtered, max_filtered, current_seconds) ==
    IF i > Len(services) \/ Len(filtered) >= max_filtered THEN filtered
    ELSE IF ~ntrip_atlas_should_skip_service(st, ServiceId(services[i].provider),
                                             current_seconds)
    THEN FilterFrom(st, services, i + 1, Append(filtered, services[i]), max_filtered,
                    current_seconds)
    ELSE FilterFrom(st, services, i + 1, filtered, max_filtered, current_seconds)

\* Mutant: the loop stops after max_filtered input services, not after
\* max_filtered copied ones.
FilterInputPrefix(st, services, filtered_services, max_filtered, current_seconds) ==
    IF Len(services) = 0 \/ ~filtered_services \/ max_filtered = 0 THEN <<>>
    ELSE FilterFrom(st, SubSeq(services, 1, MinOf(Len(services), max_filtered)), 1, <<>>,
                    max_filtered, current_seconds)

\* services is the input array (empty for a null pointer or a zero count),
\* filtered_services the output buffer: TRUE when non-null; the result is the
\* sequence written to it
ntrip_atlas_filter_blocked_services(st, services, filtered_services, max_filtered, current_seconds) ==
    IF Len(services) = 0 \/ ~filtered_services \/ max_filtered = 0 THEN <<>>
    ELSE FilterFrom(st, services, 1, <<>>, max_filtered, current_seconds)

\* ------------------------------------------------------------------ catalogs and query inputs

Australia == Service(-4500, -1000, 11000, 16000, 5)
Global == Service(-9000, 9000, -18000, 18000, 3)
Germany == Service(4700, 5500, 600, 1500, 4)
BerlinStation == Service(5240, 5260, 1330, 1350, 3)

\* the catalog of the specification's scenarios
CatAusGlobal == <<Australia, Global>>
\* regional services only: open ocean has no candidate
CatRegional == <<Australia, Germany>>
\* one more service in one place than a tile can hold
CatCrowded == [i \in 1..(SPATIAL_INDEX_MAX_SERVICES_PER_TILE + 1) |-> BerlinStation]
\* a full tile's worth of local services listed before the global one
CatCrowdedGlobal ==
    [i \in 1..(SPATIAL_INDEX_MAX_SERVICES_PER_TILE + 1) |->
        IF i <= SPATIAL_INDEX_MAX_SERVICES_PER_TILE THEN BerlinStation ELSE Global]

\* eight local stations listed before a better-rated one with the same box
BerlinReference == Service(5240, 5260, 1330, 1350, 5)
CatRanked == [i \in 1..9 |-> IF i <= 8 THEN BerlinStation ELSE BerlinReference]

\* a world-wide service rated like the regional one and listed before it
GlobalReference == Service(-9000, 9000, -18000, 18000, 5)
CatTied == <<GlobalReference, Australia>>

\* seventeen services in one place: sixteen local stations, then a reference
\* station with the same box
CatBusy == [i \in 1..17 |-> IF i <= 16 THEN BerlinStation ELSE BerlinReference]

Catalogs ==
    {CatAusGlobal, CatRegional, CatCrowded, CatCrowdedGlobal, CatRanked, CatTied, CatBusy}

IsGlobal(service) ==
    /\ service.lat_min_deg100 = -9000 /\ service.lat_max_deg100 = 9000
    /\ service.lon_min_deg100 = -18000 /\ service.lon_max_deg100 = 18000

Sydney == <<-33870, 151210>>
Moscow == <<55760, 37620>>
Berlin == <<52500, 13400>>
Pacific == <<0, -150000>>

\* query points in thousandths of a degree: the scenario cities, open ocean,
\* both corners of the grid, an invalid latitude, and the two sides of
\* Australia's northern edge (-10.00) at the rounding boundary
QueryPoints ==
    {Sydney, Moscow, Berlin, Pacific, <<90000, 180000>>, <<-90000, -180000>>,
     <<90001, 0>>, <<-9995, 130000>>, <<-9994, 130000>>}

MaxServicesArg == 17    \* the output capacity of most lookups

\* a lookup's arguments: the position, whether the output buffer is non-null,
\* and its capacity
Query(p, buffer, max_services) ==
    [lat |-> p[1], lon |-> p[2], buffer |-> buffer, max_services |-> max_services]

\* every point with room for a whole candidate list; two with room for one
\* result; a null buffer; a buffer of no capacity
Queries ==
    {Query(p, TRUE, MaxServicesArg) : p \in QueryPoints}
    \cup {Query(Sydney, TRUE, 1), Query(Berlin, TRUE, 1),
          Query(Berlin, FALSE, MaxServicesArg), Query(Berlin, TRUE, 0)}

KeyOf(point, level) ==
    LET t == ntrip_atlas_lat_lon_to_tile(point[1], point[2], level)
    IN ntrip_atlas_encode_tile_key(level, t.tile_lat, t.tile_lon)

\* direct insertions <<tile key, service index>>: Berlin's tile at the finest
\* level with a service beyond every catalog (200), Berlin's tile at a coarse
\* level with a service inside every catalog (1), and the reserved key 0
Insertions ==
    {<<KeyOf(Berlin, 4), 200>>, <<KeyOf(Berlin, 1), 1>>, <<ZeroKey, 200>>}

\* service 0 inserted under the keys lo..hi of the first 65536
RECURSIVE FillTiles(_, _, _)
FillTiles(idx, lo, hi) ==
    IF lo > hi THEN idx
    ELSE IF lo = hi THEN ntrip_atlas_add_service_to_tile(idx, Key32(0, lo), 0).idx
    ELSE LET mid == lo + (hi - lo) \div 2
             first == FillTiles(idx, lo, mid)
         IN \* the test makes the first half be evaluated before the second
            IF first.initialized THEN FillTiles(first, mid + 1, hi) ELSE first

\* the services lo..hi inserted under one key
RECURSIVE FillTile(_, _, _, _)
FillTile(idx, tile_key, lo, hi) ==
    IF lo > hi THEN idx
    ELSE IF lo = hi THEN ntrip_atlas_add_service_to_tile(idx, tile_key, lo).idx
    ELSE LET mid == lo + (hi - lo) \div 2
             first == FillTile(idx, tile_key, lo, mid)
         IN \* the test makes the first half be evaluated before the second
            IF first.initialized THEN FillTile(first, tile_key, mid + 1, hi) ELSE first

\* an index holding SPATIAL_INDEX_MAX_TILES tiles: one is Berlin's coarse
\* tile, holding the SPATIAL_INDEX_MAX_SERVICES_PER_TILE services 100, 101, ...;
\* the others hold service 0 under consecutive keys
FullIndex ==
    FillTile(FillTiles(ntrip_atlas_init_spatial_index, 1, SPATIAL_INDEX_MAX_TILES - 1),
             KeyOf(Berlin, 1), 100, 100 + SPATIAL_INDEX_MAX_SERVICES_PER_TILE - 1)

\* population of the freshly initialised index, evaluated once per catalog
PopulatedAusGlobal == populate_spatial_index(ntrip_atlas_init_spatial_index, CatAusGlobal)
PopulatedRegional == populate_spatial_index(ntrip_atlas_init_spatial_index, CatRegional)
PopulatedCrowded == populate_spatial_index(ntrip_atlas_init_spatial_index, CatCrowded)
PopulatedCrowdedGlobal ==
    populate_spatial_index(ntrip_atlas_init_spatial_index, CatCrowdedGlobal)

PopulatedRanked == populate_spatial_index(ntrip_atlas_init_spatial_index, CatRanked)

PopulatedTied == populate_spatial_index(ntrip_atlas_init_spatial_index, CatTied)

PopulatedBusy == populate_spatial_index(ntrip_atlas_init_spatial_index, CatBusy)

PopulateFresh(services) ==
    CASE services = CatAusGlobal -> PopulatedAusGlobal
      [] services = CatRegional -> PopulatedRegional
      [] services = CatCrowded -> PopulatedCrowded
      [] services = CatCrowdedGlobal -> PopulatedCrowdedGlobal
      [] services = CatRanked -> PopulatedRanked
      [] services = CatTied -> PopulatedTied
      [] services = CatBusy -> PopulatedBusy
      [] OTHER -> populate_spatial_index(ntrip_atlas_init_spatial_index, services)

\* ------------------------------------------------------------------ spatial index: operations

NoIdxCall == [op |-> "none", key |-> ZeroKey, service_index |-> 0,
              err |-> "SUCCESS", out |-> <<>>, failed |-> 0, best |-> NULL]

InitSpatialIndex ==
    /\ g_spatial_index' = ntrip_atlas_init_spatial_index
    /\ populated' = FALSE
    /\ idxCall' = [NoIdxCall EXCEPT !.op = "init"]
    /\ UNCHANGED <<catalog, query>>
    /\ UNCHANGED <<tileVars, geoVars, failVars, blVars, credVars, payVars, edgeVars, sortVars, tierVars, expVars>>

AddServiceToTile ==
    /\ \E ins \in Insertions :
           LET r == ntrip_atlas_add_service_to_tile(g_spatial_index, ins[1], ins[2])
           IN /\ g_spatial_index' = r.idx
              /\ idxCall' = [NoIdxCall EXCEPT !.op = "add", !.key = ins[1],
                                 !.service_index = ins[2], !.err = r.err]
              /\ UNCHANGED <<catalog, populated, query>>
    /\ UNCHANGED <<tileVars, geoVars, failVars, blVars, credVars, payVars, edgeVars, sortVars, tierVars, expVars>>

\* the generator's main: population runs once, on the freshly initialised index
PopulateSpatialIndex ==
    /\ g_spatial_index.initialized
    /\ g_spatial_index.tiles = <<>>
    /\ LET r == PopulateFresh(catalog)
       IN /\ g_spatial_index' = r.idx
          /\ populated' = (r.err = "SUCCESS")
          /\ idxCall' = [NoIdxCall EXCEPT !.op = "populate", !.err = r.err,
                             !.failed = r.failed]
    /\ UNCHANGED <<catalog, query>>
    /\ UNCHANGED <<tileVars, geoVars, failVars, blVars, credVars, payVars, edgeVars, sortVars, tierVars, expVars>>

FindServicesByLocationFast ==
    /\ idxCall' = [NoIdxCall EXCEPT !.op = "find_fast",
                       !.out = ntrip_atlas_find_services_by_location_fast(
                                   g_spatial_index, query.lat, query.lon,
                                   query.buffer, query.max_services)]
    /\ UNCHANGED <<g_spatial_index, catalog, populated, query>>
    /\ UNCHANGED <<tileVars, geoVars, failVars, blVars, credVars, payVars, edgeVars, sortVars, tierVars, expVars>>

FindServicesSpatialGeographic ==
    /\ idxCall' = [NoIdxCall EXCEPT !.op = "find_spatial_geographic",
                       !.out = ntrip_atlas_find_services_spatial_geographic(
                                   g_spatial_index, query.lat, query.lon, catalog,
                                   query.buffer, query.max_services)]
    /\ UNCHANGED <<g_spatial_index, catalog, populated, query>>
    /\ UNCHANGED <<tileVars, geoVars, failVars, blVars, credVars, payVars, edgeVars, sortVars, tierVars, expVars>>

\* ------------------------------------------------------------------ containment test: calls

\* boxes the containment test is called with: a catalog record, a degenerate
\* box (one point), or no service
CoverageArgs == {Australia, Global, Service(-1000, -1000, 13000, 13000, 1), NULL}

\* coordinates around the edges -45.00 / -10.00 and 110.00 / 160.00 at
\* one-thousandth steps across both rounding boundaries, and far ones
CoverageLats ==
    {-45000 + d : d \in -6..6} \cup {-10000 + d : d \in -6..6} \cup {-33870, 55760, 90000, -90000}
CoverageLons ==
    {110000 + d : d \in -6..6} \cup {160000 + d : d \in -6..6} \cup {130000, 151210, 37620, 180000, -180000}

NoGeoCall == [op |-> "none", service |-> NULL, lat |-> 0, lon |-> 0, within |-> FALSE]

\* the calls to make: the arguments are drawn, the result is still to come
CoverageInputs ==
    {[NoGeoCall EXCEPT !.op = "call_within", !.service = service, !.lat = lat, !.lon = lon] :
        service \in CoverageArgs, lat \in CoverageLats, lon \in CoverageLons}

IsLocationWithinServiceCoverage ==
    /\ geoCall.op = "call_within"
    /\ geoCall' = [geoCall EXCEPT !.op = "within",
                       !.within = ntrip_atlas_is_location_within_service_coverage(
                                      geoCall.service, geoCall.lat, geoCall.lon)]
    /\ UNCHANGED <<tileVars, idxVars, failVars, blVars, credVars, payVars, edgeVars, sortVars, tierVars, expVars>>

\* ------------------------------------------------------------------ compact failure tracking: operations

MaxHours == 3           \* the clock runs from 0 to MaxHours hours

\* the clock advances by half an hour or by two hours
ClockSteps == {1800, 7200}

\* the caller's service mapping: identifier and compact index
ServiceMapping == <<[service_id |-> "rtk2go", service_index |-> 0],
                    [service_id |-> "pointone-polaris", service_index |-> 1]>>

\* indices handed to the tracker: two tracked services, the last slot, and
\* the invalid index
FailureIndexArgs == {0, 1, NTRIP_COMPACT_INVALID_INDEX}

NoFailCall == [op |-> "none", service_index |-> 0, err |-> "SUCCESS",
               pre |-> ZeroFailure, blocked |-> FALSE, hours |-> 0,
               service_id |-> NullId, filter |-> <<>>, out |-> <<>>]

InitCompactFailureTracking ==
    /\ \E service_mapping \in {ServiceMapping, <<>>} :
           LET r == ntrip_atlas_init_compact_failure_tracking(g_compact_failure_state,
                                                              service_mapping)
           IN /\ g_compact_failure_state' = r.st
              /\ failCall' = [NoFailCall EXCEPT !.op = "init", !.err = r.err]
              /\ UNCHANGED now
    /\ UNCHANGED <<tileVars, idxVars, geoVars, blVars, credVars, payVars, edgeVars, sortVars, tierVars, expVars>>

\* pre is the record of the service before the call (all zero for an index
\* outside the table)
PreFailure(service_index) ==
    IF service_index < NTRIP_COMPACT_MAX_SERVICES
    THEN g_compact_failure_state.failures[service_index] ELSE ZeroFailure

MaxSecondFailures == 1  \* failures in a row recorded for the second service

\* the first service fails any number of times in a row, the second at most
\* MaxSecondFailures times
RecordCompactFailure ==
    /\ \E service_index \in FailureIndexArgs :
           LET r == ntrip_atlas_record_compact_failure(g_compact_failure_state,
                                                       service_index, now)
           IN /\ service_index = 1 =>
                     g_compact_failure_state.failures[1].failure_count < MaxSecondFailures
              /\ g_compact_failure_state' = r.st
              /\ failCall' = [NoFailCall EXCEPT !.op = "failure",
                                  !.service_index = service_index, !.err = r.err,
                                  !.pre = PreFailure(service_index)]
              /\ UNCHANGED now
    /\ UNCHANGED <<tileVars, idxVars, geoVars, blVars, credVars, payVars, edgeVars, sortVars, tierVars, expVars>>

RecordCompactSuccess ==
    /\ \E service_index \in FailureIndexArgs :
           LET r == ntrip_atlas_record_compact_success(g_compact_failure_state, service_index)
           IN /\ g_compact_failure_state' = r.st
              /\ failCall' = [NoFailCall EXCEPT !.op = "success",
                                  !.service_index = service_index, !.err = r.err,
                                  !.pre = PreFailure(service_index)]
              /\ UNCHANGED now
    /\ UNCHANGED <<tileVars, idxVars, geoVars, blVars, credVars, payVars, edgeVars, sortVars, tierVars, expVars>>

IsCompactServiceBlocked ==
    /\ \E service_index \in FailureIndexArgs :
           failCall' = [NoFailCall EXCEPT !.op = "blocked",
                            !.service_index = service_index,
                            !.blocked = ntrip_atlas_is_compact_service_blocked(
                                            g_compact_failure_state, service_index, now)]
    /\ UNCHANGED <<g_compact_failure_state, now>>
    /\ UNCHANGED <<tileVars, idxVars, geoVars, blVars, credVars, payVars, edgeVars, sortVars, tierVars, expVars>>

GetCompactRetryTimeHours ==
    /\ \E service_index \in FailureIndexArgs :
           failCall' = [NoFailCall EXCEPT !.op = "retry_time",
                            !.service_index = service_index,
                            !.hours = ntrip_atlas_get_compact_retry_time_hours(
                                          g_compact_failure_state, service_index, now)]
    /\ UNCHANGED <<g_compact_failure_state, now>>
    /\ UNCHANGED <<tileVars, idxVars, geoVars, blVars, credVars, payVars, edgeVars, sortVars, tierVars, expVars>>

\* identifiers asked about: the two of the mapping, one that is not in it, and
\* the null pointer
ServiceIdArgs == {ServiceId("rtk2go"), ServiceId("pointone-polaris"),
                  ServiceId("unlisted"), NullId}

ShouldSkipService ==
    /\ \E service_id \in ServiceIdArgs :
           failCall' = [NoFailCall EXCEPT !.op = "skip", !.service_id = service_id,
                            !.blocked = ntrip_atlas_should_skip_service(
                                            g_compact_failure_state, service_id, now)]
    /\ UNCHANGED <<g_compact_failure_state, now>>
    /\ UNCHANGED <<tileVars, idxVars, geoVars, blVars, credVars, payVars, edgeVars, sortVars, tierVars, expVars>>

ServiceConfig(provider) == [provider |-> provider]

MaxFiltered == 3        \* the capacity of the filter's output in most calls

\* filter calls <<services, output buffer non-null, capacity>>
FilterArgs ==
    LET list == <<ServiceConfig("rtk2go"), ServiceConfig("pointone-polaris"),
                  ServiceConfig("unlisted"), ServiceConfig("rtk2go")>>
    IN {<<list, TRUE, MaxFiltered>>, <<list, TRUE, 1>>, <<list, FALSE, MaxFiltered>>,
        <<list, TRUE, 0>>, <<(<<>>), TRUE, MaxFiltered>>}

FilterBlockedServices ==
    /\ \E f \in FilterArgs :
           failCall' = [NoFailCall EXCEPT !.op = "filter", !.filter = f,
                            !.out = ntrip_atlas_filter_blocked_services(
                                        g_compact_failure_state, f[1], f[2], f[3], now)]
    /\ UNCHANGED <<g_compact_failure_state, now>>
    /\ UNCHANGED <<tileVars, idxVars, geoVars, blVars, credVars, payVars, edgeVars, sortVars, tierVars, expVars>>

\* time passes; the clock never goes back
Tick ==
    /\ \E d \in ClockSteps :
           /\ now + d <= MaxHours * 3600
           /\ now' = now + d
           /\ failCall' = [NoFailCall EXCEPT !.op = "tick"]
           /\ UNCHANGED g_compact_failure_state
    /\ UNCHANGED <<tileVars, idxVars, geoVars, blVars, credVars, payVars, edgeVars, sortVars, tierVars, expVars>>

\* ------------------------------------------------------------------ geographic blacklist

MAX_BLACKLIST_ENTRIES_PER_SERVICE == 8
NTRIP_MAX_SERVICES == 32

\* a provider name is the sequence of its character codes; a null pointer
\* is a separate value
Provider(name) == [null |-> FALSE, name |-> name]
NullProvider == [null |-> TRUE, name |-> <<>>]

\* lat_lon_to_grid: floor() for a coordinate >= 0, ceil(x - 1.0) below 0.
\* Coordinates are thousandths of a degree, the cell is in whole degrees.
GridOf(x) == IF x >= 0 THEN x \div 1000 ELSE -((1000 - x) \div 1000)

lat_lon_to_grid(latitude, longitude) == [grid_lat |-> GridOf(latitude), grid_lon |-> GridOf(longitude)]

\* the loop of get_service_index_by_provider: hash is a uint8_t, at most
\* 32 characters are read
RECURSIVE HashFrom(_, _, _)
HashFrom(name, i, hash) ==
    IF i < Len(name) /\ i < 32
    THEN HashFrom(name, i + 1, ((hash * 33) + name[i + 1]) % 256)
    ELSE hash

get_service_index_by_provider(provider) ==
    IF provider.null THEN 255
    ELSE HashFrom(provider.name, 0, 0) % NTRIP_MAX_SERVICES

\* g_geo_blacklist as static storage: entries[s] is the used prefix of row s
\* (its length is entry_counts[s]); the reason text is not modelled
ZeroBlacklist == [initialized |-> FALSE, entries |-> [s \in 0 .. NTRIP_MAX_SERVICES - 1 |-> <<>>]]

ntrip_atlas_init_geographic_blacklist(bl) ==
    IF bl.initialized THEN [err |-> "SUCCESS", bl |-> bl]
    ELSE [err |-> "SUCCESS", bl |-> [ZeroBlacklist EXCEPT !.initialized = TRUE]]

\* position (from 1) of the entry of a cell in a row, 0 when there is none
RECURSIVE FindEntryFrom(_, _, _)
FindEntryFrom(row, grid, i) ==
    IF i > Len(row) THEN 0
    ELSE IF row[i].grid_lat = grid.grid_lat /\ row[i].grid_lon = grid.grid_lon THEN i
    ELSE FindEntryFrom(row, grid, i + 1)

\* the scan for the oldest entry of a full row: strictly smaller time wins
RECURSIVE OldestFrom(_, _, _)
OldestFrom(row, i, oldest_index) ==
    IF i > MAX_BLACKLIST_ENTRIES_PER_SERVICE THEN oldest_index
    ELSE IF row[i].blacklisted_time < row[oldest_index].blacklisted_time
         THEN OldestFrom(row, i + 1, i)
         ELSE OldestFrom(row, i + 1, oldest_index)

BlacklistEntry(grid, current_seconds) == [grid_lat |-> grid.grid_lat, grid_lon |-> grid.grid_lon, blacklisted_time |-> current_seconds]

\* variant: a full row always gives up its first entry
BlacklistReplaceFirst(bl, provider, latitude, longitude, current_seconds) ==
    IF provider.null \/ ~bl.initialized THEN [err |-> "INVALID_PARAM", bl |-> bl]
    ELSE LET service_index == get_service_index_by_provider(provider)
             grid == lat_lon_to_grid(latitude, longitude)
             row == bl.entries[service_index]
             found == FindEntryFrom(row, grid, 1)
             entry == BlacklistEntry(grid, current_seconds)
         IN IF found # 0
            THEN [err |-> "SUCCESS", bl |-> [bl EXCEPT !.entries[service_index][found] = entry]]
            ELSE IF Len(row) < MAX_BLACKLIST_ENTRIES_PER_SERVICE
            THEN [err |-> "SUCCESS", bl |-> [bl EXCEPT !.entries[service_index] = Append(row, entry)]]
            ELSE [err |-> "SUCCESS", bl |-> [bl EXCEPT !.entries[service_index][1] = entry]]

ntrip_atlas_blacklist_service_region(bl, provider, latitude, longitude, current_seconds) ==
    IF provider.null \/ ~bl.initialized THEN [err |-> "INVALID_PARAM", bl |-> bl]
    ELSE LET service_index == get_service_index_by_provider(provider)
             grid == lat_lon_to_grid(latitude, longitude)
         IN IF service_index >= NTRIP_MAX_SERVICES THEN [err |-> "INVALID_PARAM", bl |-> bl]
            ELSE LET row == bl.entries[service_index]
                     found == FindEntryFrom(row, grid, 1)
                     entry == BlacklistEntry(grid, current_seconds)
                 IN IF found # 0
                    THEN [err |-> "SUCCESS", bl |-> [bl EXCEPT !.entries[service_index][found] = entry]]
                    ELSE IF Len(row) < MAX_BLACKLIST_ENTRIES_PER_SERVICE
                    THEN [err |-> "SUCCESS", bl |-> [bl EXCEPT !.entries[service_index] = Append(row, entry)]]
                    ELSE [err |-> "SUCCESS", bl |-> [bl EXCEPT !.entries[service_index][OldestFrom(row, 2, 1)] = entry]]

ntrip_atlas_is_service_geographically_blacklisted(bl, provider, latitude, longitude) ==
    IF provider.null \/ ~bl.initialized THEN FALSE
    ELSE LET service_index == get_service_index_by_provider(provider)
         IN IF service_index >= NTRIP_MAX_SERVICES THEN FALSE
            ELSE FindEntryFrom(bl.entries[service_index], lat_lon_to_grid(latitude, longitude), 1) # 0

\* variant: the count is decremented without shifting the later entries down
RemoveWithoutShift(bl, provider, latitude, longitude) ==
    IF provider.null \/ ~bl.initialized THEN [err |-> "INVALID_PARAM", bl |-> bl]
    ELSE LET service_index == get_service_index_by_provider(provider)
             row == bl.entries[service_index]
             found == FindEntryFrom(row, lat_lon_to_grid(latitude, longitude), 1)
         IN IF found # 0
            THEN [err |-> "SUCCESS", bl |-> [bl EXCEPT !.entries[service_index] = SubSeq(row, 1, Len(row) - 1)]]
            ELSE [err |-> "NOT_FOUND", bl |-> bl]

ntrip_atlas_remove_geographic_blacklist(bl, provider, latitude, longitude) ==
    IF provider.null \/ ~bl.initialized THEN [err |-> "INVALID_PARAM", bl |-> bl]
    ELSE LET service_index == get_service_index_by_provider(provider)
         IN IF service_index >= NTRIP_MAX_SERVICES THEN [err |-> "INVALID_PARAM", bl |-> bl]
            ELSE LET row == bl.entries[service_index]
                     found == FindEntryFrom(row, lat_lon_to_grid(latitude, longitude), 1)
                 IN IF found # 0
                    THEN [err |-> "SUCCESS", bl |-> [bl EXCEPT !.entries[service_index] = SubSeq(row, 1, found - 1) \o SubSeq(row, found + 1, Len(row))]]
                    ELSE [err |-> "NOT_FOUND", bl |-> bl]

ntrip_atlas_clear_service_geographic_blacklist(bl, provider) ==
    IF provider.null \/ ~bl.initialized THEN [err |-> "INVALID_PARAM", bl |-> bl]
    ELSE LET service_index == get_service_index_by_provider(provider)
         IN IF service_index >= NTRIP_MAX_SERVICES THEN [err |-> "INVALID_PARAM", bl |-> bl]
            ELSE [err |-> "SUCCESS", bl |-> [bl EXCEPT !.entries[service_index] = <<>>]]

ntrip_atlas_clear_all_geographic_blacklists(bl) ==
    IF ~bl.initialized THEN [err |-> "PLATFORM", bl |-> bl]
    ELSE [err |-> "SUCCESS", bl |-> [bl EXCEPT !.entries = ZeroBlacklist.entries]]


\* ------------------------------------------------------------------ provider table and candidate records

\* a string is the sequence of its character codes.
\* the provider string table, by provider index:
\*   0 "RTK2go Community"
\*   1 "Point One Navigation"
\*   2 "Geoscience Australia"
\*   3 "EUREF-IP Network"
\*   4 "Massachusetts DOT"
\*   5 "Finland NLS"
\*   6 "BKG EUREF-IP"
\*   7 "Leica SmartNet"
\*   8 "Trimble VRS Now"
\*   9 "IGS Network"
g_provider_table ==
<<
    <<82, 84, 75, 50, 103, 111, 32, 67, 111, 109, 109, 117, 110, 105, 116, 121>>,
    <<80, 111, 105, 110, 116, 32, 79, 110, 101, 32, 78, 97, 118, 105, 103, 97, 116, 105, 111, 110>>,
    <<71, 101, 111, 115, 99, 105, 101, 110, 99, 101, 32, 65, 117, 115, 116, 114, 97, 108, 105, 97>>,
    <<69, 85, 82, 69, 70, 45, 73, 80, 32, 78, 101, 116, 119, 111, 114, 107>>,
    <<77, 97, 115, 115, 97, 99, 104, 117, 115, 101, 116, 116, 115, 32, 68, 79, 84>>,
    <<70, 105, 110, 108, 97, 110, 100, 32, 78, 76, 83>>,
    <<66, 75, 71, 32, 69, 85, 82, 69, 70, 45, 73, 80>>,
    <<76, 101, 105, 99, 97, 32, 83, 109, 97, 114, 116, 78, 101, 116>>,
    <<84, 114, 105, 109, 98, 108, 101, 32, 86, 82, 83, 32, 78, 111, 119>>,
    <<73, 71, 83, 32, 78, 101, 116, 119, 111, 114, 107>>>>

UnknownProvider == <<85, 110, 107, 110, 111, 119, 110, 32, 80, 114, 111, 118, 105, 100, 101, 114>>   \* "Unknown Provider"

get_provider_name(index) == IF index < Len(g_provider_table) THEN g_provider_table[index + 1] ELSE UnknownProvider

NTRIP_FLAG_PAID_SERVICE == 64

\* a candidate record: the fields of ntrip_service_compact_t read by the
\* filters (the coverage fields are in Service)
CompactService(hostname, flags, provider_index, quality_rating) == [hostname |-> hostname, flags |-> flags, provider_index |-> provider_index, quality_rating |-> quality_rating]

\* ------------------------------------------------------------------ geographic blacklist: candidate filter

\* the decimal digits of n, as "%zu" prints them
RECURSIVE Digits(_)
Digits(n) == IF n < 10 THEN <<48 + n>> ELSE Digits(n \div 10) \o <<48 + (n % 10)>>

\* snprintf(provider_id, 16, "service_%zu", i)
ServiceProviderId(i) == Provider(Prefix(<<115, 101, 114, 118, 105, 99, 101, 95>> \o Digits(i), 15))

\* the loop of the filter from position i (from 0) on
RECURSIVE FilterBlacklistedFrom(_, _, _, _, _, _, _)
FilterBlacklistedFrom(bl, services, latitude, longitude, i, filtered, max_filtered) ==
    IF i < Len(services) /\ Len(filtered) < max_filtered
    THEN IF ~ntrip_atlas_is_service_geographically_blacklisted(bl, ServiceProviderId(i), latitude, longitude)
         THEN FilterBlacklistedFrom(bl, services, latitude, longitude, i + 1, Append(filtered, services[i + 1]), max_filtered)
         ELSE FilterBlacklistedFrom(bl, services, latitude, longitude, i + 1, filtered, max_filtered)
    ELSE filtered

\* services and filtered_services are <<null?, elements>>; the result is the
\* filtered list (its length is the returned count)
ntrip_atlas_filter_geographically_blacklisted_services(bl, services, latitude, longitude, filtered_services, max_filtered) ==
    IF services.null \/ ~filtered_services \/ ~bl.initialized THEN <<>>
    ELSE FilterBlacklistedFrom(bl, services.list, latitude, longitude, 0, <<>>, max_filtered)

\* ------------------------------------------------------------------ geographic blacklist: operations

MaxBlacklistSeconds == 1    \* seconds the clock advances past BlacklistStart
MaxGridStep == 2            \* grid inputs run MaxGridStep degrees either side of the sample cells

FinlandNLS == Provider(<<70, 105, 110, 108, 97, 110, 100, 32, 78, 76, 83>>)          \* "Finland NLS"
BkgEurefIp == Provider(<<66, 75, 71, 32, 69, 85, 82, 69, 70, 45, 73, 80>>)          \* "BKG EUREF-IP"
TestService == Provider(<<84, 101, 115, 116, 32, 83, 101, 114, 118, 105, 99, 101>>) \* "Test Service"

Point(latitude, longitude) == [latitude |-> latitude, longitude |-> longitude]

\* 40.123,-74.567 and the points the grid test compares it with; the pole
\* of the capacity test; two of the cells the capacity test fills
GridTestPoint == Point(40123, -74567)
GridEdgePoint == Point(40000, -74000)
GridWestPoint == Point(40000, -75000)
OverflowPoint == Point(90000, 90000)
CapacityPoint(i) == Point(i * 10000, i * 10000)

\* the capacity test fills a row with the cells (10 i, 10 i), one second apart
RECURSIVE FillRow(_, _, _, _)
FillRow(bl, provider, i, current_seconds) ==
    IF i >= MAX_BLACKLIST_ENTRIES_PER_SERVICE THEN bl
    ELSE FillRow(ntrip_atlas_blacklist_service_region(bl, provider, CapacityPoint(i).latitude, CapacityPoint(i).longitude, current_seconds).bl, provider, i + 1, current_seconds + 1)

\* the clock when the row has been filled and its first cell blacklisted again
BlacklistStart == MAX_BLACKLIST_ENTRIES_PER_SERVICE + 1

\* a full row for "Test Service" whose first entry is the newest
FullBlacklist == ntrip_atlas_blacklist_service_region(FillRow(ntrip_atlas_init_geographic_blacklist(ZeroBlacklist).bl, TestService, 0, 1), TestService, 0, 0, BlacklistStart).bl

NoBlCall == [op |-> "none", provider |-> NullProvider, latitude |-> 0, longitude |-> 0, err |-> "SUCCESS", result |-> FALSE, grid |-> lat_lon_to_grid(0, 0), services |-> <<>>, max_filtered |-> 0, out |-> <<>>]

BlacklistArgs ==
    {<<TestService, GridTestPoint>>, <<TestService, OverflowPoint>>,
     <<BkgEurefIp, GridEdgePoint>>, <<FinlandNLS, GridTestPoint>>, <<NullProvider, GridTestPoint>>}

QueryArgs ==
    {<<TestService, GridEdgePoint>>, <<TestService, CapacityPoint(1)>>,
     <<BkgEurefIp, GridTestPoint>>, <<FinlandNLS, GridTestPoint>>, <<NullProvider, GridTestPoint>>}

RemoveArgs ==
    {<<TestService, GridEdgePoint>>, <<TestService, GridWestPoint>>, <<TestService, CapacityPoint(1)>>,
     <<BkgEurefIp, GridTestPoint>>, <<FinlandNLS, GridTestPoint>>, <<NullProvider, GridTestPoint>>}

ClearArgs == {TestService, FinlandNLS, NullProvider}

InitGeographicBlacklist ==
    /\ g_geo_blacklist' = ntrip_atlas_init_geographic_blacklist(g_geo_blacklist).bl
    /\ blCall' = [NoBlCall EXCEPT !.op = "init", !.err = ntrip_atlas_init_geographic_blacklist(g_geo_blacklist).err]
    /\ UNCHANGED <<tileVars, idxVars, geoVars, failVars, credVars, payVars, edgeVars, sortVars, tierVars, expVars>>

BlacklistServiceRegion ==
    /\ \E a \in BlacklistArgs :
           LET r == ntrip_atlas_blacklist_service_region(g_geo_blacklist, a[1], a[2].latitude, a[2].longitude, now)
           IN /\ g_geo_blacklist' = r.bl
              /\ blCall' = [NoBlCall EXCEPT !.op = "blacklist", !.provider = a[1], !.latitude = a[2].latitude, !.longitude = a[2].longitude, !.err = r.err]
    /\ UNCHANGED <<tileVars, idxVars, geoVars, failVars, credVars, payVars, edgeVars, sortVars, tierVars, expVars>>

IsServiceGeographicallyBlacklisted ==
    /\ \E a \in QueryArgs :
           blCall' = [NoBlCall EXCEPT !.op = "query", !.provider = a[1], !.latitude = a[2].latitude, !.longitude = a[2].longitude,
                                      !.result = ntrip_atlas_is_service_geographically_blacklisted(g_geo_blacklist, a[1], a[2].latitude, a[2].longitude)]
    /\ UNCHANGED g_geo_blacklist
    /\ UNCHANGED <<tileVars, idxVars, geoVars, failVars, credVars, payVars, edgeVars, sortVars, tierVars, expVars>>

RemoveGeographicBlacklist ==
    /\ \E a \in RemoveArgs :
           LET r == ntrip_atlas_remove_geographic_blacklist(g_geo_blacklist, a[1], a[2].latitude, a[2].longitude)
           IN /\ g_geo_blacklist' = r.bl
              /\ blCall' = [NoBlCall EXCEPT !.op = "remove", !.provider = a[1], !.latitude = a[2].latitude, !.longitude = a[2].longitude, !.err = r.err]
    /\ UNCHANGED <<tileVars, idxVars, geoVars, failVars, credVars, payVars, edgeVars, sortVars, tierVars, expVars>>

ClearServiceGeographicBlacklist ==
    /\ \E provider \in ClearArgs :
           LET r == ntrip_atlas_clear_service_geographic_blacklist(g_geo_blacklist, provider)
           IN /\ g_geo_blacklist' = r.bl
              /\ blCall' = [NoBlCall EXCEPT !.op = "clear", !.provider = provider, !.err = r.err]
    /\ UNCHANGED <<tileVars, idxVars, geoVars, failVars, credVars, payVars, edgeVars, sortVars, tierVars, expVars>>

ClearAllGeographicBlacklists ==
    /\ g_geo_blacklist' = ntrip_atlas_clear_all_geographic_blacklists(g_geo_blacklist).bl
    /\ blCall' = [NoBlCall EXCEPT !.op = "clear_all", !.err = ntrip_atlas_clear_all_geographic_blacklists(g_geo_blacklist).err]
    /\ UNCHANGED <<tileVars, idxVars, geoVars, failVars, credVars, payVars, edgeVars, sortVars, tierVars, expVars>>

\* the candidates handed to the blacklist filter: services of "BKG EUREF-IP",
\* "Finland NLS" and "RTK2go Community", in that order
BlacklistCandidates == <<CompactService(<<>>, 0, 6, 4), CompactService(<<>>, 0, 5, 4), CompactService(<<>>, 0, 0, 3)>>

\* <<capacity, output buffer non-null>>
FilterBlacklistedArgs == {<<Len(BlacklistCandidates), TRUE>>, <<1, TRUE>>, <<Len(BlacklistCandidates), FALSE>>}

FilterGeographicallyBlacklistedServices ==
    /\ \E a \in FilterBlacklistedArgs :
           blCall' = [NoBlCall EXCEPT !.op = "filter", !.latitude = GridTestPoint.latitude, !.longitude = GridTestPoint.longitude,
                                      !.services = BlacklistCandidates, !.max_filtered = a[1], !.result = a[2],
                                      !.out = ntrip_atlas_filter_geographically_blacklisted_services(g_geo_blacklist, [null |-> FALSE, list |-> BlacklistCandidates], GridTestPoint.latitude, GridTestPoint.longitude, a[2], a[1])]
    /\ UNCHANGED g_geo_blacklist
    /\ UNCHANGED <<tileVars, idxVars, geoVars, failVars, credVars, payVars, edgeVars, sortVars, tierVars, expVars>>

\* a second passes
BlacklistTick ==
    /\ now < BlacklistStart + MaxBlacklistSeconds
    /\ now' = now + 1
    /\ blCall' = [NoBlCall EXCEPT !.op = "tick"]
    /\ UNCHANGED <<g_geo_blacklist, g_compact_failure_state, failCall>>
    /\ UNCHANGED <<tileVars, idxVars, geoVars, credVars, payVars, edgeVars, sortVars, tierVars, expVars>>

\* the grid function alone: the coordinates lie within MaxGridStep degrees of
\* the sample cells, at the cell edge, one thousandth either side and mid-cell
GridOffsets == {-1000, -999, -500, -1, 0, 1, 500}
GridLatitudes == {d * 1000 + o : d \in (40 - MaxGridStep) .. 40, o \in {0, 123, 999}} \cup {d * 1000 + o : d \in -MaxGridStep .. 0, o \in GridOffsets}
GridLongitudes == {-74000 + d * 1000 + o : d \in -MaxGridStep .. 0, o \in GridOffsets}
GridInputs == {[NoBlCall EXCEPT !.op = "call_grid", !.latitude = lat, !.longitude = lon] : lat \in GridLatitudes, lon \in GridLongitudes}

LatLonToGrid ==
    /\ blCall.op = "call_grid"
    /\ blCall' = [blCall EXCEPT !.op = "grid", !.grid = lat_lon_to_grid(blCall.latitude, blCall.longitude)]
    /\ UNCHANGED g_geo_blacklist
    /\ UNCHANGED <<tileVars, idxVars, geoVars, failVars, credVars, payVars, edgeVars, sortVars, tierVars, expVars>>

\* ------------------------------------------------------------------ credential store

NTRIP_ATLAS_MAX_USERNAME == 64
NTRIP_ATLAS_MAX_PASSWORD == 64
CredentialCapacity == 16        \* credentials[16]
ServiceIdSize == 32             \* char service_id[32]

\* strncpy(dst, src, n) into zeroed or then terminated storage: the first n
\* characters of src
Strncpy(src, n) == Prefix(src, n)

\* a store the caller owns; a null pointer is a separate value.  credentials
\* is the used prefix of the array; its length is count.
EmptyStore == [null |-> FALSE, credentials |-> <<>>]
NullStore == [null |-> TRUE, credentials |-> <<>>]

ntrip_atlas_init_credential_store(st) == IF st.null THEN st ELSE EmptyStore

\* position (from 1) of the first entry whose stored identifier equals the
\* string, 0 when there is none
RECURSIVE FindCredentialFrom(_, _, _)
FindCredentialFrom(credentials, service_id, i) ==
    IF i > Len(credentials) THEN 0
    ELSE IF credentials[i].service_id = service_id THEN i
    ELSE FindCredentialFrom(credentials, service_id, i + 1)

\* variant: the store takes entries beyond its capacity
AddCredentialUnbounded(st, service_id, username, password) ==
    IF st.null \/ service_id.null \/ username.null \/ password.null THEN [err |-> "INVALID_PARAM", st |-> st]
    ELSE LET found == FindCredentialFrom(st.credentials, service_id.name, 1)
         IN IF found # 0
            THEN [err |-> "SUCCESS", st |-> [st EXCEPT !.credentials[found].username = Strncpy(username.name, NTRIP_ATLAS_MAX_USERNAME - 1),
                                                        !.credentials[found].password = Strncpy(password.name, NTRIP_ATLAS_MAX_PASSWORD - 1)]]
            ELSE [err |-> "SUCCESS", st |-> [st EXCEPT !.credentials = Append(@, [service_id |-> Strncpy(service_id.name, ServiceIdSize - 1),
                                                                                 username |-> Strncpy(username.name, NTRIP_ATLAS_MAX_USERNAME - 1),
                                                                                 password |-> Strncpy(password.name, NTRIP_ATLAS_MAX_PASSWORD - 1)])]]

ntrip_atlas_add_credential(st, service_id, username, password) ==
    IF st.null \/ service_id.null \/ username.null \/ password.null THEN [err |-> "INVALID_PARAM", st |-> st]
    ELSE IF Len(st.credentials) >= CredentialCapacity THEN [err |-> "NO_MEMORY", st |-> st]
    ELSE LET found == FindCredentialFrom(st.credentials, service_id.name, 1)
         IN IF found # 0
            THEN [err |-> "SUCCESS", st |-> [st EXCEPT !.credentials[found].username = Strncpy(username.name, NTRIP_ATLAS_MAX_USERNAME - 1),
                                                        !.credentials[found].password = Strncpy(password.name, NTRIP_ATLAS_MAX_PASSWORD - 1)]]
            ELSE [err |-> "SUCCESS", st |-> [st EXCEPT !.credentials = Append(@, [service_id |-> Strncpy(service_id.name, ServiceIdSize - 1),
                                                                                 username |-> Strncpy(username.name, NTRIP_ATLAS_MAX_USERNAME - 1),
                                                                                 password |-> Strncpy(password.name, NTRIP_ATLAS_MAX_PASSWORD - 1)])]]

ntrip_atlas_has_credentials(st, service_id) ==
    IF st.null \/ service_id.null THEN FALSE
    ELSE FindCredentialFrom(st.credentials, service_id.name, 1) # 0

\* username and password are copied into buffers of username_len and
\* password_len bytes
ntrip_atlas_get_credentials(st, service_id, username_len, password_len) ==
    IF st.null \/ service_id.null THEN [err |-> "INVALID_PARAM", username |-> <<>>, password |-> <<>>]
    ELSE LET found == FindCredentialFrom(st.credentials, service_id.name, 1)
         IN IF found # 0
            THEN [err |-> "SUCCESS", username |-> Strncpy(st.credentials[found].username, username_len - 1),
                                     password |-> Strncpy(st.credentials[found].password, password_len - 1)]
            ELSE [err |-> "NOT_FOUND", username |-> <<>>, password |-> <<>>]

\* ------------------------------------------------------------------ credential store: operations

MaxLongEntries == 2     \* additions of the identifier that is longer than the stored field

\* "service_<i>", "user_<i>", "pass_<i>" of the capacity test
CapacityServiceId(i) == Provider(<<115, 101, 114, 118, 105, 99, 101, 95>> \o Digits(i))
CapacityUser(i) == Provider(<<117, 115, 101, 114, 95>> \o Digits(i))
CapacityPass(i) == Provider(<<112, 97, 115, 115, 95>> \o Digits(i))

PointOneNavigation == Provider(<<80, 111, 105, 110, 116, 32, 79, 110, 101, 32, 78, 97, 118, 105, 103, 97, 116, 105, 111, 110>>)    \* "Point One Navigation"
VRSnowGermany == Provider(<<86, 82, 83, 110, 111, 119, 32, 71, 101, 114, 109, 97, 110, 121, 32, 40, 84, 114, 105, 109, 98, 108, 101, 32, 86, 82, 83, 32, 78, 101, 116, 119, 111, 114, 107, 41>>)  \* "VRSnow Germany (Trimble VRS Network)", 36 characters

\* the capacity test's loop: entries service_0 .. service_(n-1)
RECURSIVE FillStore(_, _, _)
FillStore(st, i, n) ==
    IF i >= n THEN st
    ELSE FillStore(ntrip_atlas_add_credential(st, CapacityServiceId(i), CapacityUser(i), CapacityPass(i)).st, i + 1, n)

\* one entry short of full
AlmostFullStore == FillStore(EmptyStore, 0, CredentialCapacity - 1)

NoCredCall == [op |-> "none", service_id |-> NullProvider, username |-> NullProvider, password |-> NullProvider, err |-> "SUCCESS", found |-> FALSE, got |-> [username |-> <<>>, password |-> <<>>]]

CredentialIds == {CapacityServiceId(0), PointOneNavigation, VRSnowGermany}

\* <<username, password>> of an addition
CredentialPairs == {<<CapacityUser(1), CapacityPass(1)>>, <<CapacityUser(2), CapacityPass(2)>>}

InitCredentialStore ==
    /\ store' = ntrip_atlas_init_credential_store(store)
    /\ credCall' = [NoCredCall EXCEPT !.op = "init"]
    /\ UNCHANGED <<tileVars, idxVars, geoVars, failVars, blVars, payVars, edgeVars, sortVars, tierVars, expVars>>

\* the number of entries that carry the stored form of an identifier
StoredCount(st, service_id) == Cardinality({i \in 1 .. Len(st.credentials) : st.credentials[i].service_id = Strncpy(service_id.name, ServiceIdSize - 1)})

AddCredential ==
    /\ \E service_id \in CredentialIds \cup {NullProvider}, pair \in CredentialPairs :
           LET r == ntrip_atlas_add_credential(store, service_id, pair[1], pair[2])
           IN /\ Len(service_id.name) >= ServiceIdSize => StoredCount(store, service_id) < MaxLongEntries
              /\ store' = r.st
              /\ credCall' = [NoCredCall EXCEPT !.op = "add", !.service_id = service_id, !.username = pair[1], !.password = pair[2], !.err = r.err]
    /\ UNCHANGED <<tileVars, idxVars, geoVars, failVars, blVars, payVars, edgeVars, sortVars, tierVars, expVars>>

HasCredentials ==
    /\ \E service_id \in CredentialIds \cup {NullProvider} :
           credCall' = [NoCredCall EXCEPT !.op = "has", !.service_id = service_id, !.found = ntrip_atlas_has_credentials(store, service_id)]
    /\ UNCHANGED store
    /\ UNCHANGED <<tileVars, idxVars, geoVars, failVars, blVars, payVars, edgeVars, sortVars, tierVars, expVars>>

GetCredentials ==
    /\ \E service_id \in CredentialIds :
           LET r == ntrip_atlas_get_credentials(store, service_id, NTRIP_ATLAS_MAX_USERNAME, NTRIP_ATLAS_MAX_PASSWORD)
           IN credCall' = [NoCredCall EXCEPT !.op = "get", !.service_id = service_id, !.err = r.err, !.got = [username |-> r.username, password |-> r.password]]
    /\ UNCHANGED store
    /\ UNCHANGED <<tileVars, idxVars, geoVars, failVars, blVars, payVars, edgeVars, sortVars, tierVars, expVars>>

\* ------------------------------------------------------------------ payment priority

NTRIP_PAYMENT_PRIORITY_FREE_FIRST == 0
NTRIP_PAYMENT_PRIORITY_PAID_FIRST == 1

\* strstr(haystack, needle) != NULL
strstr(haystack, needle) ==
    \E i \in 1 .. (Len(haystack) - Len(needle) + 1) : SubSeq(haystack, i, i + Len(needle) - 1) = needle

ExampleCom == <<101, 120, 97, 109, 112, 108, 101, 46, 99, 111, 109>>    \* "example.com"
RegisterExample == <<114, 101, 103, 105, 115, 116, 101, 114, 46, 101, 120, 97, 109, 112, 108, 101>>    \* "register.example"
ContactSalesExample == <<99, 111, 110, 116, 97, 99, 116, 45, 115, 97, 108, 101, 115, 46, 101, 120, 97, 109, 112, 108, 101>>    \* "contact-sales.example"
AcademicExample == <<97, 99, 97, 100, 101, 109, 105, 99, 46, 101, 120, 97, 109, 112, 108, 101>>    \* "academic.example"
Localhost == <<108, 111, 99, 97, 108, 104, 111, 115, 116>>    \* "localhost"
Loopback == <<49, 50, 55, 46, 48, 46, 48, 46, 49>>    \* "127.0.0.1"

\* hostname is the service's character array, never a null pointer
is_placeholder_hostname(hostname) ==
    IF strstr(hostname, ExampleCom) THEN TRUE
    ELSE IF strstr(hostname, RegisterExample) THEN TRUE
    ELSE IF strstr(hostname, ContactSalesExample) THEN TRUE
    ELSE IF strstr(hostname, AcademicExample) THEN TRUE
    ELSE IF Len(hostname) = 0 THEN TRUE
    ELSE IF hostname = Localhost THEN TRUE
    ELSE IF hostname = Loopback THEN TRUE
    ELSE FALSE

\* provider 30 of the generated table, as the tests name it
PointOneNavigationInc == Provider(<<80, 111, 105, 110, 116, 32, 79, 110, 101, 32, 78, 97, 118, 105, 103, 97, 116, 105, 111, 110, 44, 32, 73, 110, 99, 46>>)    \* "Point One Navigation, Inc."

\* the generated provider lookup the payment module links against
generated_get_provider_name(provider_index) ==
    IF provider_index = 30 THEN PointOneNavigationInc ELSE Provider(UnknownProvider)

get_service_provider_name(service) == generated_get_provider_name(service.provider_index)

\* flags & NTRIP_FLAG_PAID_SERVICE
IsPaid(service) == (service.flags \div NTRIP_FLAG_PAID_SERVICE) % 2 = 1

\* Mutant: a paid service is usable whatever the store holds.
UsableIgnoringCredentials(service, st) == ~is_placeholder_hostname(service.hostname)

\* service is a non-null pointer
ntrip_atlas_is_service_usable(service, st) ==
    IF is_placeholder_hostname(service.hostname) THEN FALSE
    ELSE IF ~IsPaid(service) THEN TRUE
    ELSE IF st.null THEN FALSE
    ELSE ntrip_atlas_has_credentials(st, get_service_provider_name(service))

\* Mutant: the payment class is not compared.
CompareByQualityOnly(a, b, st, priority) == b.quality_rating - a.quality_rating

compare_services_by_payment_priority(a, b, st, priority) ==
    LET a_is_paid == IsPaid(a)
        b_is_paid == IsPaid(b)
        a_usable == ntrip_atlas_is_service_usable(a, st)
        b_usable == ntrip_atlas_is_service_usable(b, st)
    IN IF ~a_usable /\ b_usable THEN 1
       ELSE IF a_usable /\ ~b_usable THEN -1
       ELSE IF ~a_usable /\ ~b_usable THEN 0
       ELSE IF priority = NTRIP_PAYMENT_PRIORITY_FREE_FIRST /\ ~a_is_paid /\ b_is_paid THEN -1
       ELSE IF priority = NTRIP_PAYMENT_PRIORITY_FREE_FIRST /\ a_is_paid /\ ~b_is_paid THEN 1
       ELSE IF priority # NTRIP_PAYMENT_PRIORITY_FREE_FIRST /\ a_is_paid /\ ~b_is_paid THEN -1
       ELSE IF priority # NTRIP_PAYMENT_PRIORITY_FREE_FIRST /\ ~a_is_paid /\ b_is_paid THEN 1
       ELSE IF a.quality_rating # b.quality_rating THEN b.quality_rating - a.quality_rating
       ELSE 0

\* phase 1: the usable services, in input order, while the buffer has room
RECURSIVE CopyUsableFrom(_, _, _, _, _)
CopyUsableFrom(services, st, i, filtered, max_filtered) ==
    IF i > Len(services) \/ Len(filtered) >= max_filtered THEN filtered
    ELSE IF ntrip_atlas_is_service_usable(services[i], st)
         THEN CopyUsableFrom(services, st, i + 1, Append(filtered, services[i]), max_filtered)
         ELSE CopyUsableFrom(services, st, i + 1, filtered, max_filtered)

\* the inner loop of the bubble sort: j (from 0) runs below limit
RECURSIVE BubblePass(_, _, _, _, _)
BubblePass(filtered, st, priority, j, limit) ==
    IF j >= limit THEN filtered
    ELSE IF compare_services_by_payment_priority(filtered[j + 1], filtered[j + 2], st, priority) > 0
         THEN BubblePass([filtered EXCEPT ![j + 1] = filtered[j + 2], ![j + 2] = filtered[j + 1]], st, priority, j + 1, limit)
         ELSE BubblePass(filtered, st, priority, j + 1, limit)

\* the outer loop: i (from 0) runs below filtered_count - 1
RECURSIVE BubbleSort(_, _, _, _)
BubbleSort(filtered, st, priority, i) ==
    IF i >= Len(filtered) - 1 THEN filtered
    ELSE BubbleSort(BubblePass(filtered, st, priority, 0, Len(filtered) - 1 - i), st, priority, i + 1)

\* Mutant: every service is copied, usable or not.
FilterWithoutUsability(services, st, priority, filtered_services, max_filtered) ==
    IF services.null \/ ~filtered_services \/ Len(services.list) = 0 \/ max_filtered = 0 THEN <<>>
    ELSE BubbleSort(Prefix(services.list, max_filtered), st, priority, 0)

\* services is [null, list]; filtered_services tells whether the output
\* buffer is non-null; the result is the buffer's filled part
ntrip_atlas_filter_services_by_payment_priority(services, st, priority, filtered_services, max_filtered) ==
    IF services.null \/ ~filtered_services \/ Len(services.list) = 0 \/ max_filtered = 0 THEN <<>>
    ELSE LET filtered == CopyUsableFrom(services.list, st, 1, <<>>, max_filtered)
         IN IF Len(filtered) = 0 THEN <<>>
            ELSE BubbleSort(filtered, st, priority, 0)

\* ---- inputs of the payment operations

MaxPayServices == 3

FreeService3Star == <<102, 114, 101, 101, 95, 115, 101, 114, 118, 105, 99, 101, 95, 51, 115, 116, 97, 114>>    \* "free_service_3star"
FreeService5Star == <<102, 114, 101, 101, 95, 115, 101, 114, 118, 105, 99, 101, 95, 53, 115, 116, 97, 114>>    \* "free_service_5star"
PaidService2Star == <<112, 97, 105, 100, 95, 115, 101, 114, 118, 105, 99, 101, 95, 50, 115, 116, 97, 114>>    \* "paid_service_2star"
PaidService4Star == <<112, 97, 105, 100, 95, 115, 101, 114, 118, 105, 99, 101, 95, 52, 115, 116, 97, 114>>    \* "paid_service_4star"
RegisterExampleCom == <<114, 101, 103, 105, 115, 116, 101, 114, 46, 101, 120, 97, 109, 112, 108, 101, 46, 99, 111, 109>>    \* "register.example.com"
ContactSalesExampleCom == <<99, 111, 110, 116, 97, 99, 116, 45, 115, 97, 108, 101, 115, 46, 101, 120, 97, 109, 112, 108, 101, 46, 99, 111, 109>>    \* "contact-sales.example.com"
AcademicExampleCom == <<97, 99, 97, 100, 101, 109, 105, 99, 46, 101, 120, 97, 109, 112, 108, 101, 46, 99, 111, 109>>    \* "academic.example.com"
NtripIgnGobAr == <<110, 116, 114, 105, 112, 46, 105, 103, 110, 46, 103, 111, 98, 46, 97, 114>>    \* "ntrip.ign.gob.ar"
PolarisPointOneNav == <<112, 111, 108, 97, 114, 105, 115, 46, 112, 111, 105, 110, 116, 111, 110, 101, 110, 97, 118, 46, 99, 111, 109>>    \* "polaris.pointonenav.com"
Rtk2goCom == <<114, 116, 107, 50, 103, 111, 46, 99, 111, 109>>    \* "rtk2go.com"

\* the mock services of the ordering test
QualityTestServices == <<CompactService(FreeService3Star, 0, 0, 3), CompactService(FreeService5Star, 0, 1, 5), CompactService(PaidService2Star, NTRIP_FLAG_PAID_SERVICE, 30, 2), CompactService(PaidService4Star, NTRIP_FLAG_PAID_SERVICE, 30, 4)>>

\* services of the usability and hostname tests
HostnameTestServices == {CompactService(RegisterExampleCom, 0, 0, 0), CompactService(ContactSalesExampleCom, 0, 0, 0), CompactService(AcademicExampleCom, 0, 0, 0), CompactService(NtripIgnGobAr, 0, 0, 0), CompactService(Localhost, 0, 0, 0), CompactService(<<>>, 0, 0, 0), CompactService(Loopback, 0, 0, 0), CompactService(PolarisPointOneNav, NTRIP_FLAG_PAID_SERVICE, 30, 5), CompactService(Rtk2goCom, 0, 0, 3), CompactService(RegisterExampleCom, NTRIP_FLAG_PAID_SERVICE, 30, 4)}

\* services a filtered list is drawn from
PayServicePool == {QualityTestServices[i] : i \in 1 .. 4} \cup {CompactService(PolarisPointOneNav, NTRIP_FLAG_PAID_SERVICE + 1, 30, 5), CompactService(AcademicExampleCom, 0, 0, 5)}

RECURSIVE SeqsUpTo(_, _)
SeqsUpTo(S, n) == IF n = 0 THEN {<<>>} ELSE LET shorter == SeqsUpTo(S, n - 1) IN shorter \cup {Append(q, x) : q \in shorter, x \in S}

PayServiceLists == SeqsUpTo(PayServicePool, MaxPayServices) \cup {QualityTestServices}

\* the stores of the tests: none, empty, with the paid provider's entry,
\* with an entry under another identifier
StoreWithCredentials == ntrip_atlas_add_credential(EmptyStore, PointOneNavigationInc, CapacityUser(0), CapacityPass(0)).st
StoreOtherCredentials == ntrip_atlas_add_credential(EmptyStore, PointOneNavigation, CapacityUser(0), CapacityPass(0)).st
PayStores == {NullStore, EmptyStore, StoreWithCredentials, StoreOtherCredentials}

NoPayCall == [op |-> "none", service |-> CompactService(<<>>, 0, 0, 0), services |-> [null |-> TRUE, list |-> <<>>], st |-> NullStore, priority |-> NTRIP_PAYMENT_PRIORITY_FREE_FIRST, buffer |-> FALSE, max_filtered |-> 0, usable |-> FALSE, out |-> <<>>]

UsableInputs == {[NoPayCall EXCEPT !.op = "call_usable", !.service = sv, !.st = st] : sv \in HostnameTestServices \cup PayServicePool, st \in PayStores}

FilterPayInputs ==
    {[NoPayCall EXCEPT !.op = "call_filter", !.services = [null |-> FALSE, list |-> l], !.st = st, !.priority = p, !.buffer = TRUE, !.max_filtered = m] : l \in PayServiceLists, st \in PayStores, p \in {NTRIP_PAYMENT_PRIORITY_FREE_FIRST, NTRIP_PAYMENT_PRIORITY_PAID_FIRST}, m \in {0, 2, 4}}
    \cup {[NoPayCall EXCEPT !.op = "call_filter", !.services = [null |-> TRUE, list |-> <<>>], !.st = EmptyStore, !.buffer = TRUE, !.max_filtered = 4], [NoPayCall EXCEPT !.op = "call_filter", !.services = [null |-> FALSE, list |-> QualityTestServices], !.st = EmptyStore, !.max_filtered = 4]}

IsServiceUsable ==
    /\ payCall.op = "call_usable"
    /\ payCall' = [payCall EXCEPT !.op = "usable", !.usable = ntrip_atlas_is_service_usable(payCall.service, payCall.st)]
    /\ UNCHANGED <<tileVars, idxVars, geoVars, failVars, blVars, credVars, edgeVars, sortVars, tierVars, expVars>>

FilterServicesByPaymentPriority ==
    /\ payCall.op = "call_filter"
    /\ payCall' = [payCall EXCEPT !.op = "filter", !.out = ntrip_atlas_filter_services_by_payment_priority(payCall.services, payCall.st, payCall.priority, payCall.buffer, payCall.max_filtered)]
    /\ UNCHANGED <<tileVars, idxVars, geoVars, failVars, blVars, credVars, edgeVars, sortVars, tierVars, expVars>>

\* ------------------------------------------------------------------ distances

\* Angles are radians times TrigScale and sines are values times TrigScale;
\* coordinates are thousandths of a degree.
TrigScale == 10000
HalfPi == 15708
Abs(x) == IF x < 0 THEN -x ELSE x

\* x * M_PI / 180.0 for x >= 0 in thousandths of a degree
Radians(x) == ((x \div 100) * 174533) \div 10000 + ((x % 100) * 174533) \div 1000000

\* sin on [0, pi/2]: the series up to the ninth power
SinSeries(x) ==
    LET x2 == (x * x) \div TrigScale
        t3 == ((x * x2) \div TrigScale) \div 6
        t5 == ((t3 * x2) \div TrigScale) \div 20
        t7 == ((t5 * x2) \div TrigScale) \div 42
        t9 == ((t7 * x2) \div TrigScale) \div 72
    IN x - t3 + t5 - t7 + t9

\* sin on [0, pi]
Sin(x) == IF x > HalfPi THEN SinSeries(2 * HalfPi - x) ELSE SinSeries(x)
\* cos on [0, pi/2]
Cos(x) == SinSeries(HalfPi - x)

\* the largest r in lo .. hi with r * r <= n
RECURSIVE SqrtBetween(_, _, _)
SqrtBetween(n, lo, hi) ==
    IF lo >= hi THEN lo
    ELSE LET mid == (lo + hi + 1) \div 2
         IN IF mid * mid <= n THEN SqrtBetween(n, mid, hi) ELSE SqrtBetween(n, lo, mid - 1)

\* the smallest angle in lo .. hi whose sine reaches s
RECURSIVE AsinBetween(_, _, _)
AsinBetween(s, lo, hi) ==
    IF lo >= hi THEN lo
    ELSE LET mid == (lo + hi) \div 2
         IN IF SinSeries(mid) >= s THEN AsinBetween(s, lo, mid) ELSE AsinBetween(s, mid + 1, hi)

\* The haversine computation of the distance functions, in whole kilometres
\* (within about two kilometres of the double result for the distances
\* drawn, none of them near the antipode).  zero tells whether
\* the double result is 0.0: it is for identical points only, any two
\* distinct points at this resolution give a positive a.
Haversine(lat1, lon1, lat2, lon2) ==
    LET sdlat == Sin(Radians(Abs(lat2 - lat1)) \div 2)
        sdlon == Sin(Radians(Abs(lon2 - lon1)) \div 2)
        coscos == (Cos(Radians(Abs(lat1))) * Cos(Radians(Abs(lat2)))) \div TrigScale
        sq == sdlon * sdlon
        a == sdlat * sdlat + coscos * (sq \div TrigScale) + (coscos * (sq % TrigScale)) \div TrigScale
        root == SqrtBetween(MinOf(a, TrigScale * TrigScale), 0, TrigScale)
        c == 2 * AsinBetween(root, 0, HalfPi)
    IN [infinite |-> FALSE, zero |-> (lat1 = lat2 /\ lon1 = lon2), km |-> (6371 * c) \div TrigScale]

INFINITY == [infinite |-> TRUE, zero |-> FALSE, km |-> 0]
ZeroDistance == [infinite |-> FALSE, zero |-> TRUE, km |-> 0]

\* the centre is (min + max) / 200.0 degrees: five thousandths per unit
ntrip_atlas_calculate_distance_to_service_center(service, user_latitude, user_longitude) ==
    IF service = NULL THEN INFINITY
    ELSE LET service_lat_center == (service.lat_min_deg100 + service.lat_max_deg100) * 5
             service_lon_center == (service.lon_min_deg100 + service.lon_max_deg100) * 5
         IN Haversine(user_latitude, user_longitude, service_lat_center, service_lon_center)

\* the bounds in degrees are ten thousandths per unit
ntrip_atlas_calculate_distance_to_coverage_edge(service, user_latitude, user_longitude) ==
    IF service = NULL THEN INFINITY
    ELSE LET lat_min == service.lat_min_deg100 * 10
             lat_max == service.lat_max_deg100 * 10
             lon_min == service.lon_min_deg100 * 10
             lon_max == service.lon_max_deg100 * 10
         IN IF ntrip_atlas_is_location_within_service_coverage(service, user_latitude, user_longitude) THEN ZeroDistance
            ELSE LET clamped_low_lat == IF user_latitude < lat_min THEN lat_min ELSE user_latitude
                     closest_lat == IF clamped_low_lat > lat_max THEN lat_max ELSE clamped_low_lat
                     clamped_low_lon == IF user_longitude < lon_min THEN lon_min ELSE user_longitude
                     closest_lon == IF clamped_low_lon > lon_max THEN lon_max ELSE clamped_low_lon
                 IN ntrip_atlas_calculate_distance_to_service_center(service, closest_lat, closest_lon)

\* ------------------------------------------------------------------ best service

\* the composite score of one found service, in whole points
ServiceScore(service, user_lat, user_lon) ==
    LET distance == ntrip_atlas_calculate_distance_to_service_center(service, user_lat, user_lon)
        quality_score == service.quality_rating * 20
        distance_penalty == IF distance.km > 100 THEN 100 ELSE distance.km
    IN quality_score - distance_penalty

\* the scoring loop over found_services[i..] (i from 1)
RECURSIVE BestFrom(_, _, _, _, _, _, _)
BestFrom(found_services, i, best_score, best_index, services, user_lat, user_lon) ==
    IF i > Len(found_services) THEN best_index
    ELSE LET service_idx == found_services[i]
             score == ServiceScore(services[service_idx + 1], user_lat, user_lon)
         IN IF i = 1 \/ score > best_score
            THEN BestFrom(found_services, i + 1, score, service_idx, services, user_lat, user_lon)
            ELSE BestFrom(found_services, i + 1, best_score, best_index, services, user_lat, user_lon)

\* services is the catalog, a non-null array; best_service tells whether
\* the output pointer is non-null; best is what is written through it
ntrip_atlas_find_best_service_spatial_geographic(idx, user_lat, user_lon, services, best_service) ==
    IF ~best_service THEN [err |-> "INVALID_PARAM", best |-> NULL]
    ELSE LET found_services == ntrip_atlas_find_services_spatial_geographic(idx, user_lat, user_lon, services, TRUE, 8)
         IN IF Len(found_services) = 0 THEN [err |-> "NO_SERVICES", best |-> NULL]
            ELSE [err |-> "SUCCESS", best |-> services[BestFrom(found_services, 1, -1, 0, services, user_lat, user_lon) + 1]]

FindBestServiceSpatialGeographic ==
    /\ LET r == ntrip_atlas_find_best_service_spatial_geographic(
                    g_spatial_index, query.lat, query.lon, catalog, query.buffer)
       IN idxCall' = [NoIdxCall EXCEPT !.op = "find_best", !.err = r.err, !.best = r.best]
    /\ UNCHANGED <<g_spatial_index, catalog, populated, query>>
    /\ UNCHANGED <<tileVars, geoVars, failVars, blVars, credVars, payVars, edgeVars, sortVars, tierVars, expVars>>

\* ---- inputs of the distance functions

\* a station listed with a single coordinate, and a line of stations along
\* one latitude
PointStation == Service(5250, 5250, 1340, 1340, 3)
LineOfStations == Service(5250, 5250, 600, 1500, 3)

EdgeArgs == {Australia, Germany, PointStation, LineOfStations, NULL}
\* the scenario cities, Australia's northern edge and both sides of its
\* rounding boundary, the equator
EdgeLats == {-33870, -10000, -9995, -9994, 0, 52500, 55760}
\* the scenario cities, the centre longitudes of Australia and of the line of
\* stations, Australia's eastern edge, the Pacific
EdgeLons == {151210, 135000, 10500, 160000, 37620, 13400, -150000}

NoEdgeCall == [op |-> "none", service |-> NULL, lat |-> 0, lon |-> 0, distance |-> ZeroDistance]

EdgeInputs ==
    {[NoEdgeCall EXCEPT !.op = o, !.service = service, !.lat = lat, !.lon = lon] :
        o \in {"call_center", "call_edge"}, service \in EdgeArgs, lat \in EdgeLats, lon \in EdgeLons}

CalculateDistanceToServiceCenter ==
    /\ edgeCall.op = "call_center"
    /\ edgeCall' = [edgeCall EXCEPT !.op = "center",
                        !.distance = ntrip_atlas_calculate_distance_to_service_center(
                                         edgeCall.service, edgeCall.lat, edgeCall.lon)]
    /\ UNCHANGED <<tileVars, idxVars, geoVars, failVars, blVars, credVars, payVars, sortVars, tierVars, expVars>>

CalculateDistanceToCoverageEdge ==
    /\ edgeCall.op = "call_edge"
    /\ edgeCall' = [edgeCall EXCEPT !.op = "edge",
                        !.distance = ntrip_atlas_calculate_distance_to_coverage_edge(
                                         edgeCall.service, edgeCall.lat, edgeCall.lon)]
    /\ UNCHANGED <<tileVars, idxVars, geoVars, failVars, blVars, credVars, payVars, sortVars, tierVars, expVars>>


\* ------------------------------------------------------------------ filter and sort by location

\* the static g_sort_user_latitude and g_sort_user_longitude
ZeroSortUser == [latitude |-> 0, longitude |-> 0]

\* distance <= max_distance_km for a distance of the model
WithinKm(distance, max_distance_km) == ~distance.infinite /\ (distance.zero \/ distance.km <= max_distance_km)

\* the first pass over services[i..] (i from 1): the kept services are moved
\* to the front of the caller's array, the rest of the array stays as it is
RECURSIVE FilterInPlaceFrom(_, _, _, _, _, _)
FilterInPlaceFrom(services, i, filtered_count, user_latitude, user_longitude, max_distance_km) ==
    IF i > Len(services) THEN [services |-> services, filtered_count |-> filtered_count]
    ELSE LET within_coverage == ntrip_atlas_is_location_within_service_coverage(services[i], user_latitude, user_longitude)
             distance == IF within_coverage THEN ZeroDistance ELSE ntrip_atlas_calculate_distance_to_coverage_edge(services[i], user_latitude, user_longitude)
         IN IF within_coverage \/ WithinKm(distance, max_distance_km)
            THEN FilterInPlaceFrom([services EXCEPT ![filtered_count + 1] = services[i]], i + 1, filtered_count + 1, user_latitude, user_longitude, max_distance_km)
            ELSE FilterInPlaceFrom(services, i + 1, filtered_count, user_latitude, user_longitude, max_distance_km)

\* reads the two statics at the time of the comparison
compare_services_by_distance(a, b, sort_user) ==
    LET dist_a == ntrip_atlas_calculate_distance_to_service_center(a, sort_user.latitude, sort_user.longitude).km
        dist_b == ntrip_atlas_calculate_distance_to_service_center(b, sort_user.latitude, sort_user.longitude).km
    IN IF dist_a < dist_b THEN -1 ELSE IF dist_a > dist_b THEN 1 ELSE 0

\* the arrays qsort may leave: the first n elements rearranged into an order
\* the comparison accepts (elements that compare equal in any order), the
\* rest untouched
QsortResults(services, n, sort_user) ==
    {[i \in 1 .. Len(services) |-> IF i <= n THEN services[p[i]] ELSE services[i]] :
        p \in {q \in [1 .. n -> 1 .. n] :
                  /\ \A i, j \in 1 .. n : i # j => q[i] # q[j]
                  /\ \A i, j \in 1 .. n : i < j => compare_services_by_distance(services[q[i]], services[q[j]], sort_user) <= 0}}

\* ---- the threads that call ntrip_atlas_filter_and_sort_services_by_location

MaxSorters == 2
Sorters == 1 .. MaxSorters
NoSorters == [th \in Sorters |-> [pc |-> "idle", input |-> <<>>, services |-> <<>>, user_latitude |-> 0, user_longitude |-> 0, max_distance_km |-> 0, filtered_count |-> 0]]

\* the arrays handed in: regional services, and a local station behind them
SortArrays == {<<Australia, Germany>>, <<Germany, Australia, BerlinStation>>}
SortPoints == {Sydney, Berlin}
\* no tolerance, and one that reaches around the globe
SortDistances == {0, 20000}

SorterInputs ==
    {[pc |-> "call", input |-> a, services |-> a, user_latitude |-> pt[1], user_longitude |-> pt[2], max_distance_km |-> d, filtered_count |-> 0] :
        a \in SortArrays, pt \in SortPoints, d \in SortDistances}

\* the first pass, on the caller's own array
SortFirstPass(th) ==
    /\ sorter[th].pc = "call"
    /\ LET r == FilterInPlaceFrom(sorter[th].services, 1, 0, sorter[th].user_latitude, sorter[th].user_longitude, sorter[th].max_distance_km)
       IN sorter' = [sorter EXCEPT ![th].services = r.services, ![th].filtered_count = r.filtered_count,
                                   ![th].pc = IF r.filtered_count > 1 THEN "set_latitude" ELSE "done"]
    /\ UNCHANGED g_sort_user
    /\ UNCHANGED <<tileVars, idxVars, geoVars, failVars, blVars, credVars, payVars, edgeVars, tierVars, expVars>>

SortSetLatitude(th) ==
    /\ sorter[th].pc = "set_latitude"
    /\ g_sort_user' = [g_sort_user EXCEPT !.latitude = sorter[th].user_latitude]
    /\ sorter' = [sorter EXCEPT ![th].pc = "set_longitude"]
    /\ UNCHANGED <<tileVars, idxVars, geoVars, failVars, blVars, credVars, payVars, edgeVars, tierVars, expVars>>

SortSetLongitude(th) ==
    /\ sorter[th].pc = "set_longitude"
    /\ g_sort_user' = [g_sort_user EXCEPT !.longitude = sorter[th].user_longitude]
    /\ sorter' = [sorter EXCEPT ![th].pc = "qsort"]
    /\ UNCHANGED <<tileVars, idxVars, geoVars, failVars, blVars, credVars, payVars, edgeVars, tierVars, expVars>>

\* qsort as one step under the statics it finds; comparisons interleaved
\* with another thread's stores add further outcomes
SortQsort(th) ==
    /\ sorter[th].pc = "qsort"
    /\ \E sorted \in QsortResults(sorter[th].services, sorter[th].filtered_count, g_sort_user) :
           sorter' = [sorter EXCEPT ![th].services = sorted, ![th].pc = "done"]
    /\ UNCHANGED g_sort_user
    /\ UNCHANGED <<tileVars, idxVars, geoVars, failVars, blVars, credVars, payVars, edgeVars, tierVars, expVars>>

FilterAndSortServicesByLocation ==
    \E th \in Sorters : SortFirstPass(th) \/ SortSetLatitude(th) \/ SortSetLongitude(th) \/ SortQsort(th)

\* ------------------------------------------------------------------ tiered loading: caches

ENDPOINT_CACHE_SIZE == 4
METADATA_CACHE_SIZE == 2

\* what a platform loader hands back for a service: the data of the service
\* in the revision the platform holds at the time of the call
Loaded(service_index, revision) == [service |-> service_index, revision |-> revision]
ZeroLoaded == Loaded(0, 0)

\* endpoint_cache_entry_t and metadata_cache_entry_t, zeroed
ZeroCacheEntry ==
    [service_index |-> 0, data |-> ZeroLoaded, last_access_time |-> 0, valid |-> FALSE]

\* a ntrip_tiered_platform_t: which of its callbacks are non-null
TieredPlatform(discovery, endpoints, metadata) ==
    [null |-> FALSE, load_discovery_index |-> discovery,
     load_service_endpoints |-> endpoints, load_service_metadata |-> metadata]
NullPlatform == [null |-> TRUE, load_discovery_index |-> FALSE,
                 load_service_endpoints |-> FALSE, load_service_metadata |-> FALSE]

\* static storage: all zero (loading mode 0 is NTRIP_LOADING_FULL)
ZeroTieredState ==
    [loading_mode |-> "FULL",
     platform |-> NullPlatform,
     endpoint_cache |-> [i \in 0..(ENDPOINT_CACHE_SIZE - 1) |-> ZeroCacheEntry],
     endpoint_cache_time |-> 0,
     metadata_cache |-> [i \in 0..(METADATA_CACHE_SIZE - 1) |-> ZeroCacheEntry],
     initialized |-> FALSE]

\* ++g_tiered_state.endpoint_cache_time; the counter stays far below 2^32
get_cache_time(st) == [st EXCEPT !.endpoint_cache_time = @ + 1]

\* discovery is the result of the platform's load_discovery_index, full_init
\* the result of ntrip_atlas_init in full mode
ntrip_atlas_init_with_loading_mode(st, mode, tiered_platform, discovery, full_init) ==
    LET st1 == [st EXCEPT !.loading_mode = mode]
    IN IF mode = "TIERED"
       THEN IF tiered_platform.null \/ ~tiered_platform.load_discovery_index
            THEN [err |-> "INVALID_PARAM", st |-> st1]
            ELSE LET st2 == [st1 EXCEPT !.platform = tiered_platform]
                 IN IF discovery # "SUCCESS" THEN [err |-> discovery, st |-> st2]
                    ELSE [err |-> "SUCCESS",
                          st |-> [st2 EXCEPT
                                     !.endpoint_cache =
                                         [i \in 0..(ENDPOINT_CACHE_SIZE - 1) |-> ZeroCacheEntry],
                                     !.metadata_cache =
                                         [i \in 0..(METADATA_CACHE_SIZE - 1) |-> ZeroCacheEntry],
                                     !.endpoint_cache_time = 0,
                                     !.initialized = TRUE]]
       ELSE [err |-> full_init, st |-> [st1 EXCEPT !.initialized = TRUE]]

\* the least index of a non-empty set of slots
FirstSlot(slots) == CHOOSE i \in slots : \A j \in slots : i <= j

\* Mutant: with every slot taken the first slot is reused, whatever its age.
FindSlotFirst(st, service_index) ==
    LET st1 == get_cache_time(st)
        cache == st1.endpoint_cache
        hits == {i \in DOMAIN cache : cache[i].valid /\ cache[i].service_index = service_index}
        empty == {i \in DOMAIN cache : ~cache[i].valid}
    IN IF hits # {}
       THEN [st |-> [st1 EXCEPT !.endpoint_cache[FirstSlot(hits)].last_access_time =
                                    st1.endpoint_cache_time],
             slot |-> FirstSlot(hits)]
       ELSE IF empty # {} THEN [st |-> st1, slot |-> FirstSlot(empty)]
       ELSE [st |-> st1, slot |-> 0]

\* returns the state after the call and the index of the slot pointed to
find_endpoint_cache_slot(st, service_index) ==
    LET st1 == get_cache_time(st)
        cache == st1.endpoint_cache
        hits == {i \in DOMAIN cache : cache[i].valid /\ cache[i].service_index = service_index}
        empty == {i \in DOMAIN cache : ~cache[i].valid}
        \* the scan keeps the first of the entries with the least time
        lru == {i \in DOMAIN cache :
                   \A j \in DOMAIN cache :
                       /\ cache[i].last_access_time <= cache[j].last_access_time
                       /\ j < i => cache[i].last_access_time < cache[j].last_access_time}
    IN IF hits # {}
       THEN [st |-> [st1 EXCEPT !.endpoint_cache[FirstSlot(hits)].last_access_time =
                                    st1.endpoint_cache_time],
             slot |-> FirstSlot(hits)]
       ELSE IF empty # {} THEN [st |-> st1, slot |-> FirstSlot(empty)]
       ELSE [st |-> st1, slot |-> FirstSlot(lru)]

\* endpoints is the caller's output structure: TRUE when non-null; platform
\* is what the platform's loader answers if it is called: [err, data].  The
\* result has the error code, the state after the call, what was written to
\* the caller's structure by this function, whether the loader was called,
\* and the index of the slot find_endpoint_cache_slot pointed to.
ntrip_atlas_load_service_endpoints(st, service_index, endpoints, platform) ==
    IF ~st.initialized \/ ~endpoints
    THEN [err |-> "INVALID_PARAM", st |-> st, out |-> ZeroLoaded, called |-> FALSE, slot |-> 0]
    ELSE IF st.loading_mode # "TIERED"
    THEN [err |-> "MISSING_FEATURE", st |-> st, out |-> ZeroLoaded, called |-> FALSE, slot |-> 0]
    ELSE LET found == find_endpoint_cache_slot(st, service_index)
             cache_entry == found.st.endpoint_cache[found.slot]
         IN IF cache_entry.valid /\ cache_entry.service_index = service_index
            THEN [err |-> "SUCCESS", st |-> found.st, out |-> cache_entry.data,
                  called |-> FALSE, slot |-> found.slot]
            ELSE IF ~found.st.platform.load_service_endpoints
            THEN [err |-> "PLATFORM", st |-> found.st, out |-> ZeroLoaded, called |-> FALSE,
                  slot |-> found.slot]
            ELSE IF platform.err # "SUCCESS"
            THEN [err |-> platform.err, st |-> found.st, out |-> ZeroLoaded, called |-> TRUE,
                  slot |-> found.slot]
            ELSE LET st2 == get_cache_time(found.st)
                 IN [err |-> "SUCCESS",
                     st |-> [st2 EXCEPT !.endpoint_cache[found.slot] =
                                [service_index |-> service_index, data |-> platform.data,
                                 last_access_time |-> st2.endpoint_cache_time,
                                 valid |-> TRUE]],
                     out |-> platform.data, called |-> TRUE, slot |-> found.slot]

ntrip_atlas_trim_caches(st) ==
    IF ~st.initialized THEN st
    ELSE [st EXCEPT
             !.endpoint_cache = [i \in 0..(ENDPOINT_CACHE_SIZE - 1) |-> ZeroCacheEntry],
             !.metadata_cache = [i \in 0..(METADATA_CACHE_SIZE - 1) |-> ZeroCacheEntry]]

\* ------------------------------------------------------------------ tiered loading: operations

MaxCacheTime == 11      \* loads are made while the cache clock is below it

\* endpoints are loaded for five services, one more than the cache holds
TierServices == 0..4

\* the code compares service indices for equality only, so the services are
\* numbered in the order in which the caller comes to them: the next new
\* index asked for is one above the highest index in the cache
NextNewService(cache) ==
    LET cached == {cache[i].service_index : i \in {j \in DOMAIN cache : cache[j].valid}}
    IN IF cached = {} THEN 0
       ELSE 1 + CHOOSE s \in cached : \A t \in cached : t <= s

\* the platform serves revision 1 or revision 2 of a service's data, or fails
PlatformAnswers(service_index) ==
    {[err |-> "SUCCESS", data |-> Loaded(service_index, revision)] : revision \in {1, 2}}
    \cup {[err |-> "PLATFORM", data |-> ZeroLoaded]}

NoTierCall == [op |-> "none", service_index |-> 0, err |-> "SUCCESS", out |-> ZeroLoaded,
               called |-> FALSE, slot |-> 0, replaced |-> ZeroCacheEntry]

InitWithLoadingMode ==
    /\ ~g_tiered_state.initialized
    /\ \E mode \in {"FULL", "TIERED"},
          tiered_platform \in {NullPlatform, TieredPlatform(TRUE, TRUE, TRUE),
                               TieredPlatform(TRUE, FALSE, FALSE)},
          discovery \in {"SUCCESS", "PLATFORM"} :
           LET r == ntrip_atlas_init_with_loading_mode(g_tiered_state, mode, tiered_platform,
                                                       discovery, "SUCCESS")
           IN /\ g_tiered_state' = r.st
              /\ tierCall' = [NoTierCall EXCEPT !.op = "init", !.err = r.err]
    /\ UNCHANGED <<tileVars, idxVars, geoVars, failVars, blVars, credVars, payVars, edgeVars, sortVars, expVars>>

LoadServiceEndpoints ==
    /\ g_tiered_state.endpoint_cache_time + 2 <= MaxCacheTime
    /\ \E service_index \in TierServices, endpoints \in BOOLEAN :
       \E platform \in PlatformAnswers(service_index) :
           LET r == ntrip_atlas_load_service_endpoints(g_tiered_state, service_index,
                                                       endpoints, platform)
           IN /\ service_index <= NextNewService(g_tiered_state.endpoint_cache)
              /\ g_tiered_state' = r.st
              /\ tierCall' = [NoTierCall EXCEPT !.op = "load", !.service_index = service_index,
                                  !.err = r.err, !.out = r.out, !.called = r.called,
                                  !.slot = r.slot,
                                  !.replaced = g_tiered_state.endpoint_cache[r.slot]]
    /\ UNCHANGED <<tileVars, idxVars, geoVars, failVars, blVars, credVars, payVars, edgeVars, sortVars, expVars>>

TrimCaches ==
    /\ g_tiered_state' = ntrip_atlas_trim_caches(g_tiered_state)
    /\ tierCall' = [NoTierCall EXCEPT !.op = "trim"]
    /\ UNCHANGED <<tileVars, idxVars, geoVars, failVars, blVars, credVars, payVars, edgeVars, sortVars, expVars>>


\* ------------------------------------------------------------------ compact failure records: expansion

\* a ntrip_compact_failure_t handed to the conversion by pointer
CompactFailure(service_index, backoff_level, failure_count, retry_time_hours) ==
    [null |-> FALSE, service_index |-> service_index, backoff_level |-> backoff_level,
     failure_count |-> failure_count, retry_time_hours |-> retry_time_hours]

\* a uint32_t as two 16-bit halves, and a - b in uint32_t for a, b below 2^31
U32(x) == Key32(x \div 65536, x % 65536)
U32Sub(a, b) ==
    IF a >= b THEN U32(a - b)
    ELSE LET d == b - a - 1
         IN Key32(65535 - (d \div 65536), 65535 - (d % 65536))

\* words a read past the end of g_default_backoff_intervals may return: what
\* lies behind the array in the image is not fixed by the source
StrayWords == {0, 3600, 2147483647}

\* the values g_default_backoff_intervals[index] can yield, index 0-based
LadderRead(index) ==
    IF index \in 0..7 THEN {g_default_backoff_intervals[index + 1]} ELSE StrayWords

\* the identifier of the first mapping entry with the record's index
ExpandServiceId(st, service_index) ==
    IF ~st.initialized THEN "unknown"
    ELSE LET hits == {i \in 1..Len(st.service_mapping) :
                         st.service_mapping[i].service_index = service_index}
         IN IF hits = {} THEN "unknown"
            ELSE st.service_mapping[CHOOSE i \in hits : \A j \in hits : i <= j].service_id

ZeroFull == [service_id |-> "", failure_count |-> 0, first_failure_time |-> U32(0),
             next_retry_time |-> 0, backoff_seconds |-> 0]

\* full is the caller's output structure: TRUE when non-null.  The result
\* is the set of outcomes: the error code, the structure written, and the
\* 0-based ladder index that was read (-1 when none was).  retry_time_hours
\* stays below 2^31 / 3600, so the product does not wrap.
ntrip_atlas_expand_compact_failure(st, compact, full) ==
    IF compact.null \/ ~full
    THEN {[err |-> "INVALID_PARAM", full |-> ZeroFull, ladder_index |-> -1]}
    ELSE LET service_id == ExpandServiceId(st, compact.service_index)
             next_retry_time == compact.retry_time_hours * 3600
         IN IF compact.failure_count > 0 /\ compact.backoff_level > 0
            THEN {[err |-> "SUCCESS",
                   full |-> [service_id |-> service_id,
                             failure_count |-> compact.failure_count,
                             first_failure_time |-> U32Sub(next_retry_time, backoff_seconds),
                             next_retry_time |-> next_retry_time,
                             backoff_seconds |-> backoff_seconds],
                   ladder_index |-> compact.backoff_level - 1] :
                      backoff_seconds \in LadderRead(compact.backoff_level - 1)}
            ELSE {[err |-> "SUCCESS",
                   full |-> [service_id |-> service_id,
                             failure_count |-> compact.failure_count,
                             first_failure_time |-> U32(0),
                             next_retry_time |-> next_retry_time,
                             backoff_seconds |-> 0],
                   ladder_index |-> -1]}

ntrip_atlas_get_backoff_seconds_from_level(backoff_level) ==
    IF backoff_level = 0 \/ backoff_level > 8 THEN 0
    ELSE g_default_backoff_intervals[backoff_level]

\* the tracker as the conversion finds it: never initialised, or initialised
\* with the mapping
ExpandStates ==
    {ZeroFailureState,
     ntrip_atlas_init_compact_failure_tracking(ZeroFailureState, ServiceMapping).st}

MaxRetryHours == 123456     \* the largest retry hour of a converted record

\* records to convert: every 4-bit backoff level, counts 0, 1 and 15, a
\* mapped and an unmapped index
ExpandArgs ==
    {CompactFailure(service_index, backoff_level, failure_count, retry_time_hours) :
        service_index \in {1, 7}, backoff_level \in 0..15, failure_count \in {0, 1, 15},
        retry_time_hours \in {0, 1, MaxRetryHours}}

NoExpCall == [op |-> "none", compact |-> NULL, full_arg |-> FALSE, backoff_level |-> 0,
              err |-> "SUCCESS", full |-> ZeroFull, ladder_index |-> -1, seconds |-> 0]

ExpandInputs ==
    {[NoExpCall EXCEPT !.op = "call_expand", !.compact = compact, !.full_arg = TRUE] :
        compact \in ExpandArgs}
    \cup {[NoExpCall EXCEPT !.op = "call_expand", !.compact = NULL, !.full_arg = TRUE],
          [NoExpCall EXCEPT !.op = "call_expand",
               !.compact = CompactFailure(1, 1, 1, MaxRetryHours)]}
    \cup {[NoExpCall EXCEPT !.op = "call_seconds", !.backoff_level = backoff_level] :
              backoff_level \in 0..15}

ExpandCompactFailure ==
    /\ expCall.op = "call_expand"
    /\ \E r \in ntrip_atlas_expand_compact_failure(g_compact_failure_state,
                                                    expCall.compact, expCall.full_arg) :
           expCall' = [expCall EXCEPT !.op = "expand", !.err = r.err, !.full = r.full,
                           !.ladder_index = r.ladder_index]
    /\ UNCHANGED <<tileVars, idxVars, geoVars, failVars, blVars, credVars, payVars, edgeVars, sortVars, tierVars>>

GetBackoffSecondsFromLevel ==
    /\ expCall.op = "call_seconds"
    /\ expCall' = [expCall EXCEPT !.op = "seconds",
                      !.seconds = ntrip_atlas_get_backoff_seconds_from_level(
                                      expCall.backoff_level)]
    /\ UNCHANGED <<tileVars, idxVars, geoVars, failVars, blVars, credVars, payVars, edgeVars, sortVars, tierVars>>

\* ------------------------------------------------------------------ specifications

IdleQuery == Query(<<0, 0>>, TRUE, 0)

\* tile keys and coordinate-to-tile mapping: the arguments are drawn at the
\* start; the other parts stay at rest
InitTile ==
    /\ tileCall \in EncodeInputs \cup ToTileInputs
    /\ g_spatial_index = ZeroIndex /\ catalog = CatRegional /\ populated = FALSE
    /\ query = IdleQuery /\ idxCall = NoIdxCall
    /\ geoCall = NoGeoCall
    /\ g_compact_failure_state = ZeroFailureState /\ now = 0 /\ failCall = NoFailCall
    /\ g_geo_blacklist = ZeroBlacklist /\ blCall = NoBlCall
    /\ store = EmptyStore /\ credCall = NoCredCall /\ payCall = NoPayCall /\ edgeCall = NoEdgeCall
    /\ g_sort_user = ZeroSortUser /\ sorter = NoSorters /\ g_tiered_state = ZeroTieredState /\ tierCall = NoTierCall /\ expCall = NoExpCall
NextTile == EncodeCall \/ ToTileCall
SpecTile == InitTile /\ [][NextTile]_vars

\* spatial index: insertion, population, lookup, combined search.  The index
\* starts as static storage, or (to reach the tile-count limit) as an
\* initialised index filled with SPATIAL_INDEX_MAX_TILES tiles.
InitIdx ==
    /\ tileCall = NoTileCall
    /\ \/ g_spatial_index = ZeroIndex /\ catalog \in Catalogs
       \/ g_spatial_index = FullIndex /\ catalog = CatRegional
    /\ populated = FALSE
    /\ query \in Queries
    /\ idxCall = NoIdxCall
    /\ geoCall = NoGeoCall
    /\ g_compact_failure_state = ZeroFailureState /\ now = 0 /\ failCall = NoFailCall
    /\ g_geo_blacklist = ZeroBlacklist /\ blCall = NoBlCall
    /\ store = EmptyStore /\ credCall = NoCredCall /\ payCall = NoPayCall /\ edgeCall = NoEdgeCall
    /\ g_sort_user = ZeroSortUser /\ sorter = NoSorters /\ g_tiered_state = ZeroTieredState /\ tierCall = NoTierCall /\ expCall = NoExpCall
NextIdx ==
    \/ InitSpatialIndex
    \/ AddServiceToTile
    \/ PopulateSpatialIndex
    \/ FindServicesByLocationFast
    \/ FindServicesSpatialGeographic
    \/ FindBestServiceSpatialGeographic
SpecIdx == InitIdx /\ [][NextIdx]_vars

\* geographic verifier
InitGeo ==
    /\ tileCall = NoTileCall
    /\ g_spatial_index = ZeroIndex /\ catalog = CatRegional /\ populated = FALSE
    /\ query = IdleQuery /\ idxCall = NoIdxCall
    /\ geoCall \in CoverageInputs
    /\ g_compact_failure_state = ZeroFailureState /\ now = 0 /\ failCall = NoFailCall
    /\ g_geo_blacklist = ZeroBlacklist /\ blCall = NoBlCall
    /\ store = EmptyStore /\ credCall = NoCredCall /\ payCall = NoPayCall /\ edgeCall = NoEdgeCall
    /\ g_sort_user = ZeroSortUser /\ sorter = NoSorters /\ g_tiered_state = ZeroTieredState /\ tierCall = NoTierCall /\ expCall = NoExpCall
NextGeo == IsLocationWithinServiceCoverage
SpecGeo == InitGeo /\ [][NextGeo]_vars

\* failure / backoff state machine
InitFail ==
    /\ tileCall = NoTileCall
    /\ g_spatial_index = ZeroIndex /\ catalog = CatRegional /\ populated = FALSE
    /\ query = IdleQuery /\ idxCall = NoIdxCall
    /\ geoCall = NoGeoCall
    /\ g_compact_failure_state = ZeroFailureState /\ now = 0 /\ failCall = NoFailCall
    /\ g_geo_blacklist = ZeroBlacklist /\ blCall = NoBlCall
    /\ store = EmptyStore /\ credCall = NoCredCall /\ payCall = NoPayCall /\ edgeCall = NoEdgeCall
    /\ g_sort_user = ZeroSortUser /\ sorter = NoSorters /\ g_tiered_state = ZeroTieredState /\ tierCall = NoTierCall /\ expCall = NoExpCall
NextFail ==
    \/ InitCompactFailureTracking
    \/ RecordCompactFailure
    \/ RecordCompactSuccess
    \/ IsCompactServiceBlocked
    \/ GetCompactRetryTimeHours
    \/ ShouldSkipService
    \/ FilterBlockedServices
    \/ Tick
SpecFail == InitFail /\ [][NextFail]_vars

\* the blacklist's grid function
InitGrid ==
    /\ tileCall = NoTileCall
    /\ g_spatial_index = ZeroIndex /\ catalog = CatRegional /\ populated = FALSE
    /\ query = IdleQuery /\ idxCall = NoIdxCall
    /\ geoCall = NoGeoCall
    /\ g_compact_failure_state = ZeroFailureState /\ now = 0 /\ failCall = NoFailCall
    /\ g_geo_blacklist = ZeroBlacklist /\ blCall \in GridInputs
    /\ store = EmptyStore /\ credCall = NoCredCall /\ payCall = NoPayCall /\ edgeCall = NoEdgeCall
    /\ g_sort_user = ZeroSortUser /\ sorter = NoSorters /\ g_tiered_state = ZeroTieredState /\ tierCall = NoTierCall /\ expCall = NoExpCall
NextGrid == LatLonToGrid
SpecGrid == InitGrid /\ [][NextGrid]_vars

\* geographic blacklist: from static storage, or from a table in which
\* "Test Service" has filled its row
InitBlacklist ==
    /\ tileCall = NoTileCall
    /\ g_spatial_index = ZeroIndex /\ catalog = CatRegional /\ populated = FALSE
    /\ query = IdleQuery /\ idxCall = NoIdxCall
    /\ geoCall = NoGeoCall
    /\ g_compact_failure_state = ZeroFailureState /\ now = BlacklistStart /\ failCall = NoFailCall
    /\ g_geo_blacklist \in {ZeroBlacklist, FullBlacklist} /\ blCall = NoBlCall
    /\ store = EmptyStore /\ credCall = NoCredCall /\ payCall = NoPayCall /\ edgeCall = NoEdgeCall
    /\ g_sort_user = ZeroSortUser /\ sorter = NoSorters /\ g_tiered_state = ZeroTieredState /\ tierCall = NoTierCall /\ expCall = NoExpCall
NextBlacklist ==
    \/ InitGeographicBlacklist
    \/ BlacklistServiceRegion
    \/ IsServiceGeographicallyBlacklisted
    \/ RemoveGeographicBlacklist
    \/ ClearServiceGeographicBlacklist
    \/ ClearAllGeographicBlacklists
    \/ FilterGeographicallyBlacklistedServices
    \/ BlacklistTick
SpecBlacklist == InitBlacklist /\ [][NextBlacklist]_vars

\* credential store: empty, or one entry short of full
InitCred ==
    /\ tileCall = NoTileCall
    /\ g_spatial_index = ZeroIndex /\ catalog = CatRegional /\ populated = FALSE
    /\ query = IdleQuery /\ idxCall = NoIdxCall
    /\ geoCall = NoGeoCall
    /\ g_compact_failure_state = ZeroFailureState /\ now = 0 /\ failCall = NoFailCall
    /\ g_geo_blacklist = ZeroBlacklist /\ blCall = NoBlCall
    /\ store \in {EmptyStore, AlmostFullStore} /\ credCall = NoCredCall /\ payCall = NoPayCall /\ edgeCall = NoEdgeCall
    /\ g_sort_user = ZeroSortUser /\ sorter = NoSorters /\ g_tiered_state = ZeroTieredState /\ tierCall = NoTierCall /\ expCall = NoExpCall
NextCred == InitCredentialStore \/ AddCredential \/ HasCredentials \/ GetCredentials
SpecCred == InitCred /\ [][NextCred]_vars

\* payment priority: the usability test and the filter on drawn inputs
InitPay ==
    /\ tileCall = NoTileCall
    /\ g_spatial_index = ZeroIndex /\ catalog = CatRegional /\ populated = FALSE
    /\ query = IdleQuery /\ idxCall = NoIdxCall
    /\ geoCall = NoGeoCall
    /\ g_compact_failure_state = ZeroFailureState /\ now = 0 /\ failCall = NoFailCall
    /\ g_geo_blacklist = ZeroBlacklist /\ blCall = NoBlCall
    /\ store = EmptyStore /\ credCall = NoCredCall /\ payCall \in UsableInputs \cup FilterPayInputs /\ edgeCall = NoEdgeCall
    /\ g_sort_user = ZeroSortUser /\ sorter = NoSorters /\ g_tiered_state = ZeroTieredState /\ tierCall = NoTierCall /\ expCall = NoExpCall
NextPay == IsServiceUsable \/ FilterServicesByPaymentPriority
SpecPay == InitPay /\ [][NextPay]_vars

\* the distance functions on drawn services and positions
InitEdge ==
    /\ tileCall = NoTileCall
    /\ g_spatial_index = ZeroIndex /\ catalog = CatRegional /\ populated = FALSE
    /\ query = IdleQuery /\ idxCall = NoIdxCall
    /\ geoCall = NoGeoCall
    /\ g_compact_failure_state = ZeroFailureState /\ now = 0 /\ failCall = NoFailCall
    /\ g_geo_blacklist = ZeroBlacklist /\ blCall = NoBlCall
    /\ store = EmptyStore /\ credCall = NoCredCall /\ payCall = NoPayCall /\ edgeCall \in EdgeInputs
    /\ g_sort_user = ZeroSortUser /\ sorter = NoSorters /\ g_tiered_state = ZeroTieredState /\ tierCall = NoTierCall /\ expCall = NoExpCall
NextEdge == CalculateDistanceToServiceCenter \/ CalculateDistanceToCoverageEdge
SpecEdge == InitEdge /\ [][NextEdge]_vars

\* the in-place filter and sort, called from every thread once
InitSort ==
    /\ tileCall = NoTileCall
    /\ g_spatial_index = ZeroIndex /\ catalog = CatRegional /\ populated = FALSE
    /\ query = IdleQuery /\ idxCall = NoIdxCall
    /\ geoCall = NoGeoCall
    /\ g_compact_failure_state = ZeroFailureState /\ now = 0 /\ failCall = NoFailCall
    /\ g_geo_blacklist = ZeroBlacklist /\ blCall = NoBlCall
    /\ store = EmptyStore /\ credCall = NoCredCall /\ payCall = NoPayCall /\ edgeCall = NoEdgeCall
    /\ g_sort_user = ZeroSortUser /\ sorter \in [Sorters -> SorterInputs] /\ g_tiered_state = ZeroTieredState /\ tierCall = NoTierCall /\ expCall = NoExpCall
NextSort == FilterAndSortServicesByLocation
SpecSort == InitSort /\ [][NextSort]_vars

\* the conversion of compact failure records
InitExp ==
    /\ tileCall = NoTileCall
    /\ g_spatial_index = ZeroIndex /\ catalog = CatRegional /\ populated = FALSE
    /\ query = IdleQuery /\ idxCall = NoIdxCall
    /\ geoCall = NoGeoCall
    /\ g_compact_failure_state \in ExpandStates /\ now = 0 /\ failCall = NoFailCall
    /\ g_geo_blacklist = ZeroBlacklist /\ blCall = NoBlCall
    /\ store = EmptyStore /\ credCall = NoCredCall /\ payCall = NoPayCall /\ edgeCall = NoEdgeCall
    /\ g_sort_user = ZeroSortUser /\ sorter = NoSorters /\ g_tiered_state = ZeroTieredState /\ tierCall = NoTierCall /\ expCall \in ExpandInputs
NextExp ==
    \/ ExpandCompactFailure
    \/ GetBackoffSecondsFromLevel
SpecExp == InitExp /\ [][NextExp]_vars

\* the tiered loader's caches
InitTier ==
    /\ tileCall = NoTileCall
    /\ g_spatial_index = ZeroIndex /\ catalog = CatRegional /\ populated = FALSE
    /\ query = IdleQuery /\ idxCall = NoIdxCall
    /\ geoCall = NoGeoCall
    /\ g_compact_failure_state = ZeroFailureState /\ now = 0 /\ failCall = NoFailCall
    /\ g_geo_blacklist = ZeroBlacklist /\ blCall = NoBlCall
    /\ store = EmptyStore /\ credCall = NoCredCall /\ payCall = NoPayCall /\ edgeCall = NoEdgeCall
    /\ g_sort_user = ZeroSortUser /\ sorter = NoSorters /\ g_tiered_state = ZeroTieredState /\ tierCall = NoTierCall /\ expCall = NoExpCall
NextTier ==
    \/ InitWithLoadingMode
    \/ LoadServiceEndpoints
    \/ TrimCaches
SpecTier == InitTier /\ [][NextTier]_vars

\* the whole engine, every part from static storage
Init ==
    /\ tileCall \in {[NoTileCall EXCEPT !.op = "call_encode", !.level = 4, !.a = 31, !.b = 63]}
    /\ g_spatial_index = ZeroIndex /\ catalog = CatRegional /\ populated = FALSE
    /\ query \in {q \in Queries : q.max_services = MaxServicesArg}
    /\ idxCall = NoIdxCall
    /\ geoCall \in {c \in CoverageInputs : c.service = Australia /\ c.lat = -10005}
    /\ g_compact_failure_state = ZeroFailureState /\ now = 0 /\ failCall = NoFailCall
    /\ g_geo_blacklist = ZeroBlacklist /\ blCall = NoBlCall
    /\ store = EmptyStore /\ credCall = NoCredCall /\ payCall = NoPayCall /\ edgeCall = NoEdgeCall
    /\ g_sort_user = ZeroSortUser /\ sorter = NoSorters /\ g_tiered_state = ZeroTieredState /\ tierCall = NoTierCall /\ expCall = NoExpCall
Next == NextTile \/ NextIdx \/ NextGeo \/ NextFail \/ NextGrid \/ NextBlacklist
Spec == Init /\ [][Next]_vars

\* ------------------------------------------------------------------ properties: tile keys

ValidTriple(level, lat_tile, lon_tile) ==
    /\ level \in 0..4
    /\ lat_tile \in 0..(2 * Pow2(level) - 1)
    /\ lon_tile \in 0..(4 * Pow2(level) - 1)

\* C5: for a level in 0..4 and tile coordinates inside that level's grid,
\* encoding and then decoding gives back the same triple and the key is not
\* zero; for a level of 5 or more, or a tile coordinate outside the level's
\* grid, the encoder returns the reserved key 0.
C5_EncodeDecodeRoundTrip ==
    tileCall.op = "encode" =>
        IF ValidTriple(tileCall.level, tileCall.a, tileCall.b)
        THEN /\ tileCall.dec = [level |-> tileCall.level, lat_tile |-> tileCall.a,
                                lon_tile |-> tileCall.b]
             /\ tileCall.key # ZeroKey
        ELSE tileCall.key = ZeroKey

\* the last tile of the finest level went through the round trip
C5_Witness ==
    /\ tileCall.op = "encode"
    /\ tileCall.level = 4 /\ tileCall.a = 31 /\ tileCall.b = 63
    /\ tileCall.dec = [level |-> 4, lat_tile |-> 31, lon_tile |-> 63]

\* C6: for a latitude in [-90, 90], a longitude in [-180, 180] and a level in
\* 0..4 the mapping succeeds with a latitude tile in [0, 2 * 2^level - 1] and
\* a longitude tile in [0, 4 * 2^level - 1], the upper boundaries included;
\* outside those ranges it fails with the invalid-parameter error.
C6_TileInGrid ==
    tileCall.op = "to_tile" =>
        IF /\ tileCall.a >= -90000 /\ tileCall.a <= 90000
           /\ tileCall.b >= -180000 /\ tileCall.b <= 180000
           /\ tileCall.level \in 0..4
        THEN /\ tileCall.res.err = "SUCCESS"
             /\ tileCall.res.tile_lat \in 0..(2 * Pow2(tileCall.level) - 1)
             /\ tileCall.res.tile_lon \in 0..(4 * Pow2(tileCall.level) - 1)
        ELSE tileCall.res.err = "INVALID_PARAM"

\* latitude 90, longitude 180 at the finest level lands in the last tile
C6_Witness ==
    /\ tileCall.op = "to_tile"
    /\ tileCall.a = 90000 /\ tileCall.b = 180000 /\ tileCall.level = 4
    /\ tileCall.res = [err |-> "SUCCESS", tile_lat |-> 31, tile_lon |-> 63]

\* ------------------------------------------------------------------ properties: containment test

\* the hundredth of a degree nearest to x thousandths, a tie going away from zero
NearestHundredth(x) ==
    LET q == x \div 10
        rest == x - 10 * q
    IN IF rest < 5 THEN q
       ELSE IF rest > 5 THEN q + 1
       ELSE IF x >= 0 THEN q + 1 ELSE q

BoxContains(service, lat, lon) ==
    /\ service.lat_min_deg100 <= NearestHundredth(lat)
    /\ NearestHundredth(lat) <= service.lat_max_deg100
    /\ service.lon_min_deg100 <= NearestHundredth(lon)
    /\ NearestHundredth(lon) <= service.lon_max_deg100

\* C2: the containment test is true exactly when the latitude and the
\* longitude, each rounded to the nearest hundredth of a degree, lie within
\* the service's bounds, both ends included; for no service it is false.
C2_ContainmentIsRoundedBoxTest ==
    geoCall.op = "within" =>
        geoCall.within = (/\ geoCall.service # NULL
                          /\ BoxContains(geoCall.service, geoCall.lat, geoCall.lon))

\* a point 0.004 degrees outside the box in both directions rounds onto its
\* corner and is inside
C2_Witness ==
    /\ geoCall.op = "within"
    /\ geoCall.service = Australia
    /\ geoCall.lat = -9996 /\ geoCall.lon = 160004
    /\ geoCall.within

\* ------------------------------------------------------------------ properties: spatial index

\* the bisection of InsertPos stops where the source's linear scan stops, for
\* every key inserted into every index reached
InsertPosAgrees ==
    \A ins \in Insertions :
        InsertPos(g_spatial_index.tiles, ins[1]) = InsertPosScan(g_spatial_index.tiles, ins[1])

\* the tiles are in strictly ascending key order, which find_tile_by_key relies on
TilesAscending ==
    \A i \in 1..(Len(g_spatial_index.tiles) - 1) :
        KeyLess(g_spatial_index.tiles[i].key, g_spatial_index.tiles[i + 1].key)

ValidCoordinate(lat, lon) ==
    /\ lat >= -90000 /\ lat <= 90000
    /\ lon >= -180000 /\ lon <= 180000

\* the service lists stored in idx under the tile of level `level` that
\* contains the point (a set: empty when there is no such tile)
ListsAt(idx, lat, lon, level) ==
    {idx.tiles[i].service_indices : i \in
        {j \in 1..Len(idx.tiles) : idx.tiles[j].key = KeyOf(<<lat, lon>>, level)}}

\* the levels at which the point's tile exists and holds at least one service
LevelsWithServices(idx, lat, lon) ==
    {level \in 0..(SPATIAL_INDEX_MAX_LEVELS - 1) : ListsAt(idx, lat, lon, level) \ {<<>>} # {}}

\* the tile list of the point: the list of its tile at the finest level that
\* has services
TileList(idx, lat, lon) ==
    IF ~idx.initialized \/ ~ValidCoordinate(lat, lon) \/ LevelsWithServices(idx, lat, lon) = {}
    THEN <<>>
    ELSE LET finest == CHOOSE level \in LevelsWithServices(idx, lat, lon) :
                           \A other \in LevelsWithServices(idx, lat, lon) : other <= level
         IN CHOOSE list \in ListsAt(idx, lat, lon, finest) : TRUE

\* C1: every service index the combined spatial-geographic search returns is
\* in the tile list of the user's position, is below the number of services
\* passed in, and belongs to a service whose bounding box contains the
\* position; a candidate failing any of these is not returned.
C1_CombinedSearchSound ==
    idxCall.op = "find_spatial_geographic" =>
        \A i \in 1..Len(idxCall.out) :
            /\ InSeq(idxCall.out[i], TileList(g_spatial_index, query.lat, query.lon))
            /\ idxCall.out[i] < Len(catalog)
            /\ BoxContains(catalog[idxCall.out[i] + 1], query.lat, query.lon)

\* just north of Australia's box: the tile lists Australia and the global
\* service, and only the global service comes back
C1_Witness ==
    /\ idxCall.op = "find_spatial_geographic"
    /\ catalog = CatAusGlobal
    /\ query = Query(<<-9994, 130000>>, TRUE, MaxServicesArg)
    /\ InSeq(0, TileList(g_spatial_index, query.lat, query.lon))
    /\ idxCall.out = <<1>>

\* C3: the tile lookup returns the service list of the finest level (4 down
\* to 0) whose tile for the coordinate exists and is not empty, cut to the
\* capacity of the output; it returns nothing only when no level has such a
\* tile or the arguments are invalid.
C3_FinestLevelFirst ==
    idxCall.op = "find_fast" =>
        idxCall.out = IF query.buffer
                      THEN Prefix(TileList(g_spatial_index, query.lat, query.lon),
                                  query.max_services)
                      ELSE <<>>

\* Berlin's tile exists at level 1 with service 1 and at level 4 with service
\* 200: the lookup returns the level-4 list
C3_Witness ==
    /\ idxCall.op = "find_fast"
    /\ <<1>> \in ListsAt(g_spatial_index, Berlin[1], Berlin[2], 1)
    /\ <<200>> \in ListsAt(g_spatial_index, Berlin[1], Berlin[2], 4)
    /\ query = Query(Berlin, TRUE, MaxServicesArg)
    /\ idxCall.out = <<200>>

TileOf(idx, tile_key) ==
    IF \E i \in 1..Len(idx.tiles) : idx.tiles[i].key = tile_key
    THEN CHOOSE i \in 1..Len(idx.tiles) : idx.tiles[i].key = tile_key
    ELSE 0

\* C7: adding a service that the tile does not hold to a tile with 64
\* services fails with the tile-full error, adding a service under a new key
\* to an index with 4096 tiles fails with the index-full error, and in both
\* cases the index is left as it was.
C7_CapacityErrorsLeaveIndexUnchanged ==
    [][idxCall'.op = "add" /\ g_spatial_index.initialized =>
        LET t == TileOf(g_spatial_index, idxCall'.key)
        IN /\ (/\ t # 0
               /\ Len(g_spatial_index.tiles[t].service_indices)
                      = SPATIAL_INDEX_MAX_SERVICES_PER_TILE
               /\ ~InSeq(idxCall'.service_index, g_spatial_index.tiles[t].service_indices))
              => /\ idxCall'.err = "TILE_FULL"
                 /\ g_spatial_index' = g_spatial_index
           /\ (t = 0 /\ Len(g_spatial_index.tiles) = SPATIAL_INDEX_MAX_TILES)
              => /\ idxCall'.err = "SPATIAL_INDEX_FULL"
                 /\ g_spatial_index' = g_spatial_index]_vars

\* an index with 4096 tiles, one of them with 64 services, has refused a
\* service for the full tile
C7_Witness ==
    /\ idxCall.op = "add"
    /\ idxCall.err = "TILE_FULL"
    /\ Len(g_spatial_index.tiles) = SPATIAL_INDEX_MAX_TILES
    /\ Len(g_spatial_index.tiles[TileOf(g_spatial_index, idxCall.key)].service_indices)
           = SPATIAL_INDEX_MAX_SERVICES_PER_TILE

\* C8: when an insertion fails during population (a tile or the index is
\* full), population reports an error instead of success.
C8_PopulationReportsFailedInsertion ==
    idxCall.op = "populate" /\ idxCall.failed > 0 => idxCall.err # "SUCCESS"

\* ------------------------------------------------------------------ properties: failure tracking

\* the delay ladder in whole hours: 1 h, 4 h, 12 h, 1 d, 3 d, 1 w, 2 w, and a
\* month of 2629746 s rounded up
LadderHours == <<1, 4, 12, 24, 72, 168, 336, 731>>

\* C9: recording a failure for a valid service index on the initialised
\* tracker succeeds and leaves failure_count = min(old count + 1, 15),
\* backoff_level = min(failure_count, 8) and retry_time_hours = the current
\* hour + the delay of rung backoff_level rounded up to whole hours, so three
\* failures in a row at a fixed clock give delays of 1, 4 and 12 hours.
C9_RecordFailure ==
    (/\ failCall.op = "failure"
     /\ g_compact_failure_state.initialized
     /\ failCall.service_index < NTRIP_COMPACT_MAX_SERVICES)
    => LET failure == g_compact_failure_state.failures[failCall.service_index]
       IN /\ failCall.err = "SUCCESS"
          /\ failure.failure_count = MinOf(failCall.pre.failure_count + 1, 15)
          /\ failure.backoff_level = MinOf(failure.failure_count, 8)
          /\ failure.retry_time_hours = (now \div 3600) + LadderHours[failure.backoff_level]

\* the third failure in a row, the clock still in its first hour: retry in
\* 12 hours
C9_Witness ==
    /\ failCall.op = "failure"
    /\ failCall.service_index = 0
    /\ now < 3600
    /\ failCall.pre = [failure_count |-> 2, backoff_level |-> 2, retry_time_hours |-> 4]
    /\ g_compact_failure_state.failures[0]
           = [failure_count |-> 3, backoff_level |-> 3, retry_time_hours |-> 12]

\* C10: when a failure is recorded for a service that already has failures
\* (no success since), and the clock has not gone back, the stored retry time
\* is not lower than before.
C10_RetryTimeNeverDecreases ==
    (/\ failCall.op = "failure"
     /\ failCall.err = "SUCCESS"
     /\ failCall.pre.failure_count > 0)
    => g_compact_failure_state.failures[failCall.service_index].retry_time_hours
           >= failCall.pre.retry_time_hours

\* a failure recorded at the saturated counter, hours after the one before
C10_Witness ==
    /\ failCall.op = "failure"
    /\ failCall.err = "SUCCESS"
    /\ failCall.pre.failure_count = 15
    /\ now >= 7200
    /\ g_compact_failure_state.failures[failCall.service_index].retry_time_hours
           > failCall.pre.retry_time_hours

\* the tracker holds a record for service_index
Tracked(service_index) ==
    g_compact_failure_state.initialized /\ service_index < NTRIP_COMPACT_MAX_SERVICES

\* the service's retry hour is still ahead
BackoffBlocked(service_index) ==
    /\ Tracked(service_index)
    /\ g_compact_failure_state.failures[service_index].failure_count > 0
    /\ now \div 3600 < g_compact_failure_state.failures[service_index].retry_time_hours

\* C11: recording a success for a tracked service, whatever its failure count
\* and backoff level were, succeeds and leaves its failure count, backoff
\* level and retry time at zero; right after it the service is not blocked
\* and its reported retry time is 0.
C11_SuccessResets ==
    (failCall.op = "success" /\ Tracked(failCall.service_index)) =>
        /\ failCall.err = "SUCCESS"
        /\ g_compact_failure_state.failures[failCall.service_index]
               = [failure_count |-> 0, backoff_level |-> 0, retry_time_hours |-> 0]
        /\ ~ntrip_atlas_is_compact_service_blocked(g_compact_failure_state,
                                                   failCall.service_index, now)
        /\ ntrip_atlas_get_compact_retry_time_hours(g_compact_failure_state,
                                                    failCall.service_index, now) = 0

\* a success after the counter had saturated
C11_Witness ==
    /\ failCall.op = "success"
    /\ failCall.service_index = 0
    /\ failCall.pre.failure_count = 15 /\ failCall.pre.backoff_level = 8
    /\ failCall.pre.retry_time_hours > now \div 3600
    /\ g_compact_failure_state.failures[0].failure_count = 0

\* C12: for a tracked service and any clock value the blocked query is true
\* exactly when failure_count > 0 and the current hour is before the retry hour.
C12_BlockedPredicate ==
    (failCall.op = "blocked" /\ Tracked(failCall.service_index)) =>
        failCall.blocked =
            (/\ g_compact_failure_state.failures[failCall.service_index].failure_count > 0
             /\ now \div 3600
                    < g_compact_failure_state.failures[failCall.service_index].retry_time_hours)

\* a service with a failure on record whose retry hour has come: not blocked
C12_Witness ==
    /\ failCall.op = "blocked"
    /\ failCall.service_index = 0
    /\ g_compact_failure_state.failures[0].failure_count = 1
    /\ now \div 3600 = g_compact_failure_state.failures[0].retry_time_hours
    /\ ~failCall.blocked

\* C13: in every reachable state each record has failure_count <= 15,
\* backoff_level <= 8 and backoff_level = min(failure_count, 8); a service
\* with failure_count = 0 is not blocked; and a record's backoff level goes
\* down only by a success or a re-initialisation.
C13_FailureTableInvariants ==
    /\ [](\A i \in DOMAIN g_compact_failure_state.failures :
            LET failure == g_compact_failure_state.failures[i]
            IN /\ failure.failure_count <= 15
               /\ failure.backoff_level <= 8
               /\ failure.backoff_level = MinOf(failure.failure_count, 8)
               /\ failure.failure_count = 0 =>
                      ~ntrip_atlas_is_compact_service_blocked(g_compact_failure_state, i, now))
    /\ [][g_compact_failure_state' # g_compact_failure_state =>
            \A i \in DOMAIN g_compact_failure_state.failures :
                g_compact_failure_state'.failures[i].backoff_level
                    < g_compact_failure_state.failures[i].backoff_level
                => failCall'.op \in {"success", "init"}]_vars

\* one record saturated (count 15, level 8) next to one still climbing
C13_Witness ==
    /\ g_compact_failure_state.failures[0].failure_count = 15
    /\ g_compact_failure_state.failures[0].backoff_level = 8
    /\ g_compact_failure_state.failures[1].failure_count = MaxSecondFailures
    /\ g_compact_failure_state.failures[1].backoff_level = MaxSecondFailures

\* the identifier has no index: the tracker is not initialised, the pointer is
\* null, or no mapping entry carries it
Unlisted(service_id) ==
    \/ ~g_compact_failure_state.initialized
    \/ service_id.null
    \/ \A i \in 1..Len(g_compact_failure_state.service_mapping) :
           g_compact_failure_state.service_mapping[i].service_id # service_id.id

\* C14: for an unknown or null identifier, the invalid index 255 or an
\* uninitialised tracker, the blocked query and the skip query are false and
\* the retry time is 0; recording a failure or a success for index 255
\* returns the invalid-parameter error and changes no record.
C14_NoDataNeverBlocks ==
    /\ [](/\ (failCall.op = "blocked" /\ ~Tracked(failCall.service_index))
                 => ~failCall.blocked
          /\ (failCall.op = "retry_time" /\ ~Tracked(failCall.service_index))
                 => failCall.hours = 0
          /\ (failCall.op = "skip" /\ Unlisted(failCall.service_id))
                 => ~failCall.blocked)
    /\ [][(/\ failCall'.op \in {"failure", "success"}
           /\ failCall'.service_index = NTRIP_COMPACT_INVALID_INDEX)
          => /\ failCall'.err = "INVALID_PARAM"
             /\ g_compact_failure_state' = g_compact_failure_state]_vars

\* the skip query for an identifier outside the mapping, while a listed
\* service is blocked
C14_Witness ==
    /\ failCall.op = "skip"
    /\ failCall.service_id = ServiceId("unlisted")
    /\ BackoffBlocked(0)
    /\ ~failCall.blocked

\* the index the mapping gives the provider is blocked
ProviderBlocked(provider) ==
    \E i \in 1..Len(g_compact_failure_state.service_mapping) :
        /\ g_compact_failure_state.service_mapping[i].service_id = provider
        /\ BackoffBlocked(g_compact_failure_state.service_mapping[i].service_index)

\* C15: the blocked-service filter writes the input services that are not
\* backoff-blocked (a service without an index is kept), in their input
\* order, cut to the output capacity; no blocked service is in the output.
C15_FilterKeepsUnblocked ==
    failCall.op = "filter" =>
        LET Keep(service) == ~ProviderBlocked(service.provider)
        IN /\ failCall.out = IF failCall.filter[2]
                             THEN Prefix(SelectSeq(failCall.filter[1], Keep),
                                         failCall.filter[3])
                             ELSE <<>>
           /\ \A i \in 1..Len(failCall.out) : Keep(failCall.out[i])

\* rtk2go is blocked and listed first: with room for one service the filter
\* returns the next one
C15_Witness ==
    /\ failCall.op = "filter"
    /\ failCall.filter[3] = 1
    /\ ProviderBlocked("rtk2go")
    /\ Len(failCall.filter[1]) = 4
    /\ failCall.out = <<ServiceConfig("pointone-polaris")>>

\* the service has failures on record and the clock has reached its retry hour
RetryDue(service_index) ==
    /\ g_compact_failure_state.initialized
    /\ g_compact_failure_state.failures[service_index].failure_count > 0
    /\ now \div 3600 >= g_compact_failure_state.failures[service_index].retry_time_hours

\* what the two queries answer about the service at clock value current_seconds
ReportedFree(st, service_index, current_seconds) ==
    /\ ~ntrip_atlas_is_compact_service_blocked(st, service_index, current_seconds)
    /\ ntrip_atlas_get_compact_retry_time_hours(st, service_index, current_seconds) = 0

\* C36: backoff expires on its own: a service with failures on record is
\* reported not blocked, with retry time 0, once the clock has reached its
\* retry hour, and as long as no further failure is recorded for it this
\* stays so at every later clock value, without a success call.
C36_BackoffExpires ==
    /\ [](\A i \in {0, 1} :
            /\ RetryDue(i) => ReportedFree(g_compact_failure_state, i, now)
            /\ (RetryDue(i) /\ failCall.service_index = i) =>
                   /\ failCall.op = "blocked" => ~failCall.blocked
                   /\ failCall.op = "retry_time" => failCall.hours = 0)
    /\ [][\A i \in {0, 1} :
            (/\ RetryDue(i)
             /\ g_compact_failure_state'.initialized
             /\ g_compact_failure_state'.failures[i] = g_compact_failure_state.failures[i])
            => (RetryDue(i)' /\ ReportedFree(g_compact_failure_state', i, now'))]_vars

\* one failure at hour 0, retry hour 1; at hour 2, with no success recorded,
\* the retry time is reported as 0
C36_Witness ==
    /\ failCall.op = "retry_time"
    /\ failCall.service_index = 0
    /\ g_compact_failure_state.failures[0].failure_count = 1
    /\ g_compact_failure_state.failures[0].retry_time_hours = 1
    /\ now \div 3600 >= 2
    /\ failCall.hours = 0

\* ------------------------------------------------------------------ properties: geographic blacklist

\* floor toward negative infinity of a coordinate, in whole degrees
FloorDegree(x) == x \div 1000

\* C16: the grid cell of a latitude or longitude is its floor toward negative
\* infinity, also for negative values and exact negative integers, so two
\* coordinates share a cell exactly when their floors are equal.
C16_GridCellIsFloor ==
    blCall.op = "grid" =>
        /\ blCall.grid.grid_lat = FloorDegree(blCall.latitude)
        /\ blCall.grid.grid_lon = FloorDegree(blCall.longitude)
        /\ \A other \in GridLatitudes :
               (lat_lon_to_grid(other, blCall.longitude).grid_lat = blCall.grid.grid_lat)
                   <=> (FloorDegree(other) = FloorDegree(blCall.latitude))
        /\ \A other \in GridLongitudes :
               (lat_lon_to_grid(blCall.latitude, other).grid_lon = blCall.grid.grid_lon)
                   <=> (FloorDegree(other) = FloorDegree(blCall.longitude))

\* the part of C16 that holds: a coordinate that is not a negative whole
\* number of degrees is assigned its floor
C16_NonIntegerIsFloor ==
    blCall.op = "grid" =>
        /\ (blCall.latitude >= 0 \/ blCall.latitude % 1000 # 0) => blCall.grid.grid_lat = FloorDegree(blCall.latitude)
        /\ (blCall.longitude >= 0 \/ blCall.longitude % 1000 # 0) => blCall.grid.grid_lon = FloorDegree(blCall.longitude)

\* the providers and points the blacklist properties range over: every
\* provider that makes calls, and a point in every cell that is ever used
BlacklistProviders == {TestService, BkgEurefIp, FinlandNLS}
BlacklistPoints == {GridTestPoint, GridEdgePoint, GridWestPoint, OverflowPoint} \cup {CapacityPoint(i) : i \in 0 .. MAX_BLACKLIST_ENTRIES_PER_SERVICE - 1}

CallPoint(call) == Point(call.latitude, call.longitude)

\* the blacklist query, as a caller observes it
Blacklisted(bl, provider, point) == ntrip_atlas_is_service_geographically_blacklisted(bl, provider, point.latitude, point.longitude)

\* both points lie in one cell of the blacklist's grid
SameCell(p, q) == lat_lon_to_grid(p.latitude, p.longitude) = lat_lon_to_grid(q.latitude, q.longitude)

\* the cells (by sample point) a provider is blacklisted in
BlacklistedCells(bl, provider) == {lat_lon_to_grid(pt.latitude, pt.longitude) : pt \in {q \in BlacklistPoints : Blacklisted(bl, provider, q)}}

\* C17: after a provider is blacklisted at a point the query for it is true
\* at every point of the same grid cell; a cell becomes blacklisted for a
\* provider only by a blacklisting of that provider in that cell, and stops
\* being blacklisted only when its entry is removed, the provider or the
\* whole table is cleared, or the provider's full list evicts it.
C17_CellStatusFollowsBlacklisting ==
    /\ [](blCall.op = "blacklist" /\ blCall.err = "SUCCESS" =>
            \A pt \in BlacklistPoints :
                SameCell(pt, CallPoint(blCall)) => Blacklisted(g_geo_blacklist, blCall.provider, pt))
    /\ [][g_geo_blacklist' # g_geo_blacklist =>
            \A provider \in BlacklistProviders, pt \in BlacklistPoints :
                /\ (~Blacklisted(g_geo_blacklist, provider, pt) /\ Blacklisted(g_geo_blacklist', provider, pt)) =>
                       /\ blCall'.op = "blacklist"
                       /\ blCall'.provider = provider
                       /\ SameCell(CallPoint(blCall'), pt)
                /\ (Blacklisted(g_geo_blacklist, provider, pt) /\ ~Blacklisted(g_geo_blacklist', provider, pt)) =>
                       \/ blCall'.op = "remove" /\ blCall'.provider = provider /\ SameCell(CallPoint(blCall'), pt)
                       \/ blCall'.op = "clear" /\ blCall'.provider = provider
                       \/ blCall'.op = "clear_all"
                       \/ /\ blCall'.op = "blacklist"
                          /\ blCall'.provider = provider
                          /\ Cardinality(BlacklistedCells(g_geo_blacklist, provider)) >= MAX_BLACKLIST_ENTRIES_PER_SERVICE]_vars

\* C19: blacklisting, removing or clearing for one provider never changes the
\* result of the blacklist query for a provider with a different name, at
\* any location.
C19_OtherProvidersUnaffected ==
    [][blCall'.op \in {"blacklist", "remove", "clear"} =>
          \A provider \in BlacklistProviders :
              provider.name # blCall'.provider.name =>
                  \A pt \in BlacklistPoints :
                      Blacklisted(g_geo_blacklist', provider, pt) = Blacklisted(g_geo_blacklist, provider, pt)]_vars

\* the row of the table a provider's entries are kept in
RowOf(bl, provider) == bl.entries[get_service_index_by_provider(provider)]

CellOf(entry) == [grid_lat |-> entry.grid_lat, grid_lon |-> entry.grid_lon]

PointCell(point) == lat_lon_to_grid(point.latitude, point.longitude)

\* C18: a service's list never holds more than 8 entries nor two entries of
\* one cell; blacklisting a new cell into a list of 8 replaces an entry of
\* smallest set-time, after which the new cell is blacklisted, the evicted
\* cell is not, and the other seven still are; a query changes no set-time.
C18_CapacityAndEviction ==
    /\ [](\A s \in DOMAIN g_geo_blacklist.entries :
             LET row == g_geo_blacklist.entries[s]
             IN /\ Len(row) <= MAX_BLACKLIST_ENTRIES_PER_SERVICE
                /\ \A i, j \in 1 .. Len(row) : CellOf(row[i]) = CellOf(row[j]) => i = j)
    /\ [][/\ blCall'.op = "query" => g_geo_blacklist' = g_geo_blacklist
          /\ (/\ blCall'.op = "blacklist"
              /\ blCall'.err = "SUCCESS"
              /\ Len(RowOf(g_geo_blacklist, blCall'.provider)) = MAX_BLACKLIST_ENTRIES_PER_SERVICE
              /\ ~Blacklisted(g_geo_blacklist, blCall'.provider, CallPoint(blCall'))) =>
                 LET row == RowOf(g_geo_blacklist, blCall'.provider)
                     after == RowOf(g_geo_blacklist', blCall'.provider)
                 IN \E e \in 1 .. Len(row) :
                        /\ \A i \in 1 .. Len(row) : row[e].blacklisted_time <= row[i].blacklisted_time
                        /\ Len(after) = Len(row)
                        /\ CellOf(after[e]) = PointCell(CallPoint(blCall'))
                        /\ after[e].blacklisted_time = now
                        /\ \A i \in 1 .. Len(row) : i # e => after[i] = row[i]
                        /\ Blacklisted(g_geo_blacklist', blCall'.provider, CallPoint(blCall'))
                        /\ \A pt \in BlacklistPoints :
                               Blacklisted(g_geo_blacklist', blCall'.provider, pt)
                                   <=> \/ SameCell(pt, CallPoint(blCall'))
                                       \/ /\ Blacklisted(g_geo_blacklist, blCall'.provider, pt)
                                          /\ PointCell(pt) # CellOf(row[e])]_vars

\* "Test Service" had 8 entries, the oldest for cell (10,10) and the first,
\* for (0,0), the newest; 90,90 has been blacklisted and took the place of
\* (10,10)
C18_Witness ==
    /\ blCall.op = "blacklist" /\ blCall.err = "SUCCESS"
    /\ blCall.provider = TestService /\ CallPoint(blCall) = OverflowPoint
    /\ Len(RowOf(g_geo_blacklist, TestService)) = MAX_BLACKLIST_ENTRIES_PER_SERVICE
    /\ CellOf(RowOf(g_geo_blacklist, TestService)[2]) = PointCell(OverflowPoint)
    /\ Blacklisted(g_geo_blacklist, TestService, OverflowPoint)
    /\ ~Blacklisted(g_geo_blacklist, TestService, CapacityPoint(1))
    /\ \A i \in {0} \cup (2 .. MAX_BLACKLIST_ENTRIES_PER_SERVICE - 1) : Blacklisted(g_geo_blacklist, TestService, CapacityPoint(i))

\* C20: on an initialised blacklist, removing a provider's entry at a point
\* succeeds exactly when the provider is blacklisted in the point's cell;
\* afterwards that cell is not blacklisted and every other cell keeps its
\* status; when the cell is not blacklisted the call returns not-found and
\* the blacklist is unchanged.  (A null provider or an uninitialised
\* blacklist is an invalid parameter and changes nothing.)
C20_RemoveExactlyWhenPresent ==
    [][blCall'.op = "remove" =>
          IF blCall'.provider.null \/ ~g_geo_blacklist.initialized
          THEN blCall'.err = "INVALID_PARAM" /\ g_geo_blacklist' = g_geo_blacklist
          ELSE IF Blacklisted(g_geo_blacklist, blCall'.provider, CallPoint(blCall'))
          THEN /\ blCall'.err = "SUCCESS"
               /\ ~Blacklisted(g_geo_blacklist', blCall'.provider, CallPoint(blCall'))
               /\ \A pt \in BlacklistPoints :
                      ~SameCell(pt, CallPoint(blCall')) =>
                          (Blacklisted(g_geo_blacklist', blCall'.provider, pt)
                               <=> Blacklisted(g_geo_blacklist, blCall'.provider, pt))
          ELSE blCall'.err = "NOT_FOUND" /\ g_geo_blacklist' = g_geo_blacklist]_vars

\* the second of eight entries has been removed; the later ones are kept
C20_Witness ==
    /\ blCall.op = "remove" /\ blCall.err = "SUCCESS"
    /\ blCall.provider = TestService /\ CallPoint(blCall) = CapacityPoint(1)
    /\ Len(RowOf(g_geo_blacklist, TestService)) = MAX_BLACKLIST_ENTRIES_PER_SERVICE - 1
    /\ ~Blacklisted(g_geo_blacklist, TestService, CapacityPoint(1))
    /\ \A i \in {0} \cup (2 .. MAX_BLACKLIST_ENTRIES_PER_SERVICE - 1) : Blacklisted(g_geo_blacklist, TestService, CapacityPoint(i))

\* a removal of a cell that is not blacklisted has returned not-found
C20_WitnessNotFound ==
    /\ blCall.op = "remove" /\ blCall.err = "NOT_FOUND"
    /\ blCall.provider = TestService /\ CallPoint(blCall) = GridWestPoint
    /\ Len(RowOf(g_geo_blacklist, TestService)) = MAX_BLACKLIST_ENTRIES_PER_SERVICE

\* the provider identity of a candidate
ProviderOf(service) == Provider(get_provider_name(service.provider_index))

\* the candidates that are not blacklisted for their provider at a point, in
\* order
RECURSIVE NotBlacklistedAt(_, _, _)
NotBlacklistedAt(bl, services, point) ==
    IF services = <<>> THEN <<>>
    ELSE (IF Blacklisted(bl, ProviderOf(Head(services)), point) THEN <<>> ELSE <<Head(services)>>)
             \o NotBlacklistedAt(bl, Tail(services), point)

\* C21: on an initialised blacklist the filter's output is the candidate list
\* without the services whose provider is blacklisted in the query point's
\* cell, in order (cut to the capacity of the output): a service blacklisted
\* under its provider identity is absent.
C21_FilterDropsBlacklistedProviders ==
    (blCall.op = "filter" /\ blCall.result /\ g_geo_blacklist.initialized) =>
        /\ blCall.out = Prefix(NotBlacklistedAt(g_geo_blacklist, blCall.services, CallPoint(blCall)), blCall.max_filtered)
        /\ \A i \in 1 .. Len(blCall.out) : ~Blacklisted(g_geo_blacklist, ProviderOf(blCall.out[i]), CallPoint(blCall))

\* ------------------------------------------------------------------ properties: credential store

\* the store holds an entry whose identifier is the string
HasEntry(st, service_id) == \E i \in 1 .. Len(st.credentials) : st.credentials[i].service_id = service_id.name

\* C22: adding credentials has add-or-update semantics at every fill level:
\* for an identifier already in the store the call succeeds, replaces that
\* entry's username and password and keeps the count; a new identifier below
\* capacity appends one entry; a later lookup returns what was added last.
C22_AddOrUpdate ==
    [][(credCall'.op = "add" /\ ~credCall'.service_id.null) =>
          /\ HasEntry(store, credCall'.service_id) =>
                 /\ credCall'.err = "SUCCESS"
                 /\ Len(store'.credentials) = Len(store.credentials)
                 /\ \A i \in 1 .. Len(store.credentials) :
                        IF store.credentials[i].service_id = credCall'.service_id.name
                        THEN store'.credentials[i] = [service_id |-> credCall'.service_id.name, username |-> credCall'.username.name, password |-> credCall'.password.name]
                        ELSE store'.credentials[i] = store.credentials[i]
          /\ (~HasEntry(store, credCall'.service_id) /\ Len(store.credentials) < CredentialCapacity) =>
                 /\ credCall'.err = "SUCCESS"
                 /\ Len(store'.credentials) = Len(store.credentials) + 1
                 /\ SubSeq(store'.credentials, 1, Len(store.credentials)) = store.credentials
          /\ credCall'.err = "SUCCESS" =>
                 ntrip_atlas_get_credentials(store', credCall'.service_id, NTRIP_ATLAS_MAX_USERNAME, NTRIP_ATLAS_MAX_PASSWORD)
                     = [err |-> "SUCCESS", username |-> credCall'.username.name, password |-> credCall'.password.name]]_vars

\* the part of C22 about identifiers that fit the stored field, below
\* capacity
C22_AddOrUpdateBelowCapacity ==
    [][(credCall'.op = "add" /\ ~credCall'.service_id.null /\ Len(credCall'.service_id.name) < ServiceIdSize /\ Len(store.credentials) < CredentialCapacity) =>
          /\ credCall'.err = "SUCCESS"
          /\ Len(store'.credentials) = Len(store.credentials) + (IF HasEntry(store, credCall'.service_id) THEN 0 ELSE 1)
          /\ ntrip_atlas_get_credentials(store', credCall'.service_id, NTRIP_ATLAS_MAX_USERNAME, NTRIP_ATLAS_MAX_PASSWORD)
                 = [err |-> "SUCCESS", username |-> credCall'.username.name, password |-> credCall'.password.name]]_vars

\* C23: the store never holds more than 16 entries; adding an identifier that
\* is not in the store to a store of 16 entries returns the out-of-capacity
\* error and changes nothing.
C23_CapacityReported ==
    /\ [](Len(store.credentials) <= CredentialCapacity)
    /\ [][(/\ credCall'.op = "add"
           /\ ~credCall'.service_id.null
           /\ ~HasEntry(store, credCall'.service_id)
           /\ Len(store.credentials) = CredentialCapacity) =>
              credCall'.err = "NO_MEMORY" /\ store' = store]_vars

\* a seventeenth identifier has been refused by a store holding the fifteen
\* entries of the start and "Point One Navigation"
C23_Witness ==
    /\ credCall.op = "add" /\ credCall.err = "NO_MEMORY"
    /\ credCall.service_id = VRSnowGermany
    /\ Len(store.credentials) = CredentialCapacity
    /\ HasEntry(store, PointOneNavigation)
    /\ ~HasEntry(store, VRSnowGermany)

\* C24: no two entries of the store carry the same stored identifier,
\* whatever the length of the identifiers added.
C24_UniqueIdentifiers ==
    \A i, j \in 1 .. Len(store.credentials) :
        store.credentials[i].service_id = store.credentials[j].service_id => i = j


\* ------------------------------------------------------------------ properties: payment priority

\* the hostnames the specification calls placeholders, among those drawn
PlaceholderHostnames == {<<>>, Localhost, Loopback, RegisterExampleCom, ContactSalesExampleCom, AcademicExampleCom}

\* the service is flagged paid: bit 6 of its flags
FlaggedPaid(service) == service.flags \in {NTRIP_FLAG_PAID_SERVICE, NTRIP_FLAG_PAID_SERVICE + 1}

\* what the specification requires of a usable service
UsableBySpec(service, st) ==
    /\ service.hostname \notin PlaceholderHostnames
    /\ \/ ~FlaggedPaid(service)
       \/ /\ ~st.null
          /\ HasEntry(st, get_service_provider_name(service))

\* C25: a service is usable exactly when its hostname is not a placeholder
\* and it is either not flagged paid, or flagged paid with a non-null
\* credential store that holds an entry for the service's provider.
C25_UsableExactly ==
    payCall.op = "usable" => (payCall.usable <=> UsableBySpec(payCall.service, payCall.st))

\* the paid Polaris service is usable with the provider's credentials stored
C25_Witness ==
    /\ payCall.op = "usable"
    /\ payCall.service.hostname = PolarisPointOneNav
    /\ FlaggedPaid(payCall.service)
    /\ payCall.st = StoreWithCredentials
    /\ payCall.usable

\* the paid Polaris service is unusable with a store that holds another entry
C25_WitnessNoEntry ==
    /\ payCall.op = "usable"
    /\ payCall.service.hostname = PolarisPointOneNav
    /\ payCall.st = StoreOtherCredentials
    /\ ~payCall.usable

\* the number of positions of seq that hold x
Occurrences(seq, x) == Cardinality({i \in 1 .. Len(seq) : seq[i] = x})

\* C26: under either mode no paid service without a matching credential
\* entry is in the filter's output and every output service is usable; with an
\* empty store the output has no paid service and holds the usable free
\* services of the input (the first max_filtered of them when the buffer is
\* smaller).
C26_OnlyUsableInOutput ==
    payCall.op = "filter" =>
        LET out == payCall.out
            free == SelectSeq(payCall.services.list, LAMBDA sv : sv.hostname \notin PlaceholderHostnames /\ ~FlaggedPaid(sv))
            kept == Prefix(free, payCall.max_filtered)
        IN /\ \A i \in 1 .. Len(out) : UsableBySpec(out[i], payCall.st)
           /\ \A i \in 1 .. Len(out) : FlaggedPaid(out[i]) => ~payCall.st.null /\ HasEntry(payCall.st, get_service_provider_name(out[i]))
           /\ (payCall.st = EmptyStore /\ payCall.buffer /\ ~payCall.services.null) =>
                  /\ \A i \in 1 .. Len(out) : ~FlaggedPaid(out[i])
                  /\ Len(out) = Len(kept)
                  /\ \A i \in 1 .. Len(kept) : Occurrences(out, kept[i]) = Occurrences(kept, kept[i])

\* the mock catalogue under paid-first with an empty store: the two free
\* services come back, the two paid ones do not
C26_Witness ==
    /\ payCall.op = "filter"
    /\ payCall.services.list = QualityTestServices
    /\ payCall.st = EmptyStore
    /\ payCall.priority = NTRIP_PAYMENT_PRIORITY_PAID_FIRST
    /\ payCall.out = <<QualityTestServices[2], QualityTestServices[1]>>

\* C27: in the filter's output, under free-first every free service precedes
\* every paid one and under paid-first every paid service precedes every free
\* one; within one payment class the quality rating never increases.
C27_OrderedByClassThenQuality ==
    payCall.op = "filter" =>
        \A i, j \in 1 .. Len(payCall.out) :
            i < j =>
                LET a == payCall.out[i]
                    b == payCall.out[j]
                IN /\ payCall.priority = NTRIP_PAYMENT_PRIORITY_FREE_FIRST => ~(FlaggedPaid(a) /\ ~FlaggedPaid(b))
                   /\ payCall.priority = NTRIP_PAYMENT_PRIORITY_PAID_FIRST => ~(~FlaggedPaid(a) /\ FlaggedPaid(b))
                   /\ FlaggedPaid(a) = FlaggedPaid(b) => a.quality_rating >= b.quality_rating

\* the ordering test under paid-first: paid 4, paid 2, free 5, free 3
C27_Witness ==
    /\ payCall.op = "filter"
    /\ payCall.services.list = QualityTestServices
    /\ payCall.st = StoreWithCredentials
    /\ payCall.priority = NTRIP_PAYMENT_PRIORITY_PAID_FIRST
    /\ payCall.out = <<QualityTestServices[4], QualityTestServices[3], QualityTestServices[2], QualityTestServices[1]>>

\* a ranks strictly before b under the priority order: by payment class
\* first, by quality within one class
RanksBefore(a, b, priority) ==
    \/ /\ priority = NTRIP_PAYMENT_PRIORITY_FREE_FIRST /\ ~FlaggedPaid(a) /\ FlaggedPaid(b)
    \/ /\ priority = NTRIP_PAYMENT_PRIORITY_PAID_FIRST /\ FlaggedPaid(a) /\ ~FlaggedPaid(b)
    \/ /\ FlaggedPaid(a) = FlaggedPaid(b) /\ a.quality_rating > b.quality_rating

\* C38: when more input services are usable than the output can hold, the
\* services returned are the highest-ranked usable ones under the requested
\* order: no usable service that was left out ranks before one that was
\* returned.
C38_HighestRankedKept ==
    (payCall.op = "filter" /\ payCall.buffer /\ ~payCall.services.null) =>
        LET out == payCall.out
            usable == SelectSeq(payCall.services.list, LAMBDA sv : UsableBySpec(sv, payCall.st))
        IN Len(usable) > payCall.max_filtered =>
               \A j \in 1 .. Len(usable) :
                   Occurrences(out, usable[j]) < Occurrences(usable, usable[j]) =>
                       \A i \in 1 .. Len(out) : ~RanksBefore(usable[j], out[i], payCall.priority)

\* ------------------------------------------------------------------ properties: distances

\* x limited to lo .. hi
Clamp(x, lo, hi) == IF x < lo THEN lo ELSE IF x > hi THEN hi ELSE x

\* the position of the call, limited to the service's box
ClampedLat == Clamp(edgeCall.lat, edgeCall.service.lat_min_deg100 * 10, edgeCall.service.lat_max_deg100 * 10)
ClampedLon == Clamp(edgeCall.lon, edgeCall.service.lon_min_deg100 * 10, edgeCall.service.lon_max_deg100 * 10)

\* the containment test for the call's service and position
EdgeCallContained == ntrip_atlas_is_location_within_service_coverage(edgeCall.service, edgeCall.lat, edgeCall.lon)

\* C28: for every service and position the edge distance is 0 when the
\* containment test is true and strictly greater than 0 when it is false,
\* also for boxes whose minimum and maximum bounds coincide.
C28_ContainmentConsistency ==
    (edgeCall.op = "edge" /\ edgeCall.service # NULL) =>
        /\ EdgeCallContained => edgeCall.distance.zero
        /\ ~EdgeCallContained => ~edgeCall.distance.zero

\* C28, the half that holds: a contained position has edge distance 0.
C28_ContainedIsZero ==
    (edgeCall.op = "edge" /\ edgeCall.service # NULL /\ EdgeCallContained) => edgeCall.distance.zero

\* C29: for a position outside the box the edge distance is the haversine
\* distance from the position to the position limited to the box extents
\* (compared within five kilometres).
C29_EdgeIsDistanceToClamped ==
    (edgeCall.op = "edge" /\ edgeCall.service # NULL /\ ~EdgeCallContained) =>
        /\ ~edgeCall.distance.infinite
        /\ Abs(edgeCall.distance.km - Haversine(edgeCall.lat, edgeCall.lon, ClampedLat, ClampedLon).km) <= 5

\* ------------------------------------------------------------------ properties: best service

\* the catalog positions of the tile lookup's candidates that pass
\* verification at the query point
VerifiedCandidates ==
    LET cands == ntrip_atlas_find_services_by_location_fast(g_spatial_index, query.lat, query.lon, TRUE, 16)
    IN {cands[i] : i \in {k \in 1 .. Len(cands) : /\ cands[k] < Len(catalog)
                                                   /\ ntrip_atlas_is_location_within_service_coverage(catalog[cands[k] + 1], query.lat, query.lon)}}

\* C30: best-service selection returns the no-services error exactly when no
\* candidate passes verification, and otherwise a verified candidate whose
\* score is maximal among all verified candidates for the query point.
C30_BestAmongVerified ==
    (idxCall.op = "find_best" /\ query.buffer) =>
        /\ idxCall.err = "NO_SERVICES" <=> VerifiedCandidates = {}
        /\ VerifiedCandidates # {} =>
               /\ idxCall.err = "SUCCESS"
               /\ \E v \in VerifiedCandidates : idxCall.best = catalog[v + 1]
               /\ \A w \in VerifiedCandidates :
                      ServiceScore(idxCall.best, query.lat, query.lon) >= ServiceScore(catalog[w + 1], query.lat, query.lon)

\* C30, with at most eight verified candidates: the error is returned exactly
\* when none verifies, and the result has the maximal score.
C30_BestAmongUpToEight ==
    (idxCall.op = "find_best" /\ query.buffer /\ Cardinality(VerifiedCandidates) <= 8) =>
        /\ idxCall.err = "NO_SERVICES" <=> VerifiedCandidates = {}
        /\ VerifiedCandidates # {} =>
               /\ idxCall.err = "SUCCESS"
               /\ \E v \in VerifiedCandidates : idxCall.best = catalog[v + 1]
               /\ \A w \in VerifiedCandidates :
                      ServiceScore(idxCall.best, query.lat, query.lon) >= ServiceScore(catalog[w + 1], query.lat, query.lon)

\* the distance from the query point to a service's centre, in kilometres
CenterKm(service) == ntrip_atlas_calculate_distance_to_service_center(service, query.lat, query.lon).km

\* C31: among eligible candidates with equal composite scores the selected
\* one has the smallest distance (compared within five kilometres) and, at
\* equal distance, the highest quality, whatever the order of examination.
\* Stated for the spatial-geographic selector with at most eight verified
\* candidates.
C31_TieBreakByDistanceThenQuality ==
    (idxCall.op = "find_best" /\ idxCall.err = "SUCCESS" /\ Cardinality(VerifiedCandidates) <= 8) =>
        \A w \in VerifiedCandidates :
            ServiceScore(catalog[w + 1], query.lat, query.lon) = ServiceScore(idxCall.best, query.lat, query.lon) =>
                /\ CenterKm(idxCall.best) <= CenterKm(catalog[w + 1]) + 5
                /\ CenterKm(idxCall.best) = CenterKm(catalog[w + 1]) =>
                       idxCall.best.quality_rating >= catalog[w + 1].quality_rating

\* the keys stored in the index
StoredKeys == {g_spatial_index.tiles[i].key : i \in 1..Len(g_spatial_index.tiles)}

\* the shape of the stored tile array
TileArrayWellFormed ==
    /\ TilesAscending
    /\ Len(g_spatial_index.tiles) <= SPATIAL_INDEX_MAX_TILES
    /\ \A i \in 1..Len(g_spatial_index.tiles) :
           LET list == g_spatial_index.tiles[i].service_indices
           IN /\ Len(list) >= 1
              /\ Len(list) <= SPATIAL_INDEX_MAX_SERVICES_PER_TILE
              /\ \A a, b \in 1..Len(list) : a # b => list[a] # list[b]
    /\ \A i \in 1..Len(g_spatial_index.tiles) :
           find_tile_by_key(g_spatial_index, g_spatial_index.tiles[i].key) = i
    /\ \A ins \in Insertions :
           ins[1] \notin StoredKeys => find_tile_by_key(g_spatial_index, ins[1]) = 0

\* an insertion of a service into a tile that holds it already
ReAddStep ==
    /\ idxCall'.op = "add"
    /\ \E i \in 1..Len(g_spatial_index.tiles) :
           /\ g_spatial_index.tiles[i].key = idxCall'.key
           /\ InSeq(idxCall'.service_index, g_spatial_index.tiles[i].service_indices)

\* C34: after initialisation and any sequence of tile insertions, successful
\* or failing, the stored tiles are in strictly ascending key order (binary
\* search finds a tile exactly when its key is stored), there are at most
\* 4096 of them, and every tile holds between 1 and 64 service indices with
\* none repeated; re-adding a service already in a tile returns success and
\* changes nothing.
C34_TileArrayInvariant ==
    /\ []TileArrayWellFormed
    /\ [][ReAddStep => (idxCall'.err = "SUCCESS" /\ g_spatial_index' = g_spatial_index)]_vars

\* the global service is added again to Berlin's level-1 tile of the
\* populated index, which stays as the population left it
C34_Witness ==
    /\ idxCall.op = "add"
    /\ idxCall.key = KeyOf(Berlin, 1) /\ idxCall.service_index = 1
    /\ idxCall.err = "SUCCESS"
    /\ catalog = CatAusGlobal
    /\ g_spatial_index = PopulatedAusGlobal.idx
    /\ \E i \in 1..Len(g_spatial_index.tiles) :
           /\ g_spatial_index.tiles[i].key = KeyOf(Berlin, 1)
           /\ InSeq(1, g_spatial_index.tiles[i].service_indices)

\* a key is a valid encoding when it is not the reserved key and encoding
\* what it decodes to gives it back (so the level is in 0..4 and the tile
\* indices are inside that level's grid)
ValidKey(key) ==
    /\ key # ZeroKey
    /\ LET d == ntrip_atlas_decode_tile_key(key)
       IN ntrip_atlas_encode_tile_key(d.level, d.lat_tile, d.lon_tile) = key

\* C35: every tile key stored in the index is a valid encoding, never the
\* reserved key 0, and an insertion given a key that is not a valid encoding
\* is rejected rather than stored.  Stated for the keys that arrive through
\* population and single insertions; the index that starts out full was
\* filled with filler keys and is left aside.
C35_StoredKeysValid ==
    /\ Len(g_spatial_index.tiles) < SPATIAL_INDEX_MAX_TILES - 1 =>
           \A key \in StoredKeys : ValidKey(key)
    /\ (idxCall.op = "add" /\ ~ValidKey(idxCall.key)) =>
           (idxCall.err # "SUCCESS" /\ idxCall.key \notin StoredKeys)

\* the service's bounding box contains the point, bounds included
InBox(service, lat, lon) ==
    /\ service.lat_min_deg100 * 10 <= lat /\ lat <= service.lat_max_deg100 * 10
    /\ service.lon_min_deg100 * 10 <= lon /\ lon <= service.lon_max_deg100 * 10

\* C37: no false negatives in the combined search: on the index populated
\* from the catalog with no failed insertion, and with an output capacity of
\* at least the catalog size, the search returns every catalog service whose
\* bounding box contains the query point, however many share its tile.
C37_NoFalseNegatives ==
    (/\ idxCall.op = "find_spatial_geographic"
     /\ PopulateFresh(catalog).failed = 0
     /\ g_spatial_index = PopulateFresh(catalog).idx
     /\ query.buffer /\ query.max_services >= Len(catalog)) =>
        \A i \in 1..Len(catalog) :
            InBox(catalog[i], query.lat, query.lon) => InSeq(i - 1, idxCall.out)

\* ------------------------------------------------------------------ properties: expansion of failure records

\* C39: expanding a compact failure record never reads the 8-entry backoff
\* ladder outside indices 0..7, whatever the record's 4-bit backoff level;
\* for levels 1..8 (of a record with failures) the verbose record has the
\* same failure count, a next-retry time of retry hours times 3600 and the
\* ladder value of the level as backoff seconds.
C39_LadderReadInBounds ==
    (expCall.op = "expand" /\ expCall.err = "SUCCESS") =>
        /\ expCall.ladder_index \in -1..7
        /\ (expCall.compact.backoff_level \in 1..8 /\ expCall.compact.failure_count > 0) =>
               /\ expCall.full.failure_count = expCall.compact.failure_count
               /\ expCall.full.next_retry_time = expCall.compact.retry_time_hours * 3600
               /\ expCall.full.backoff_seconds
                      = g_default_backoff_intervals[expCall.compact.backoff_level]

\* for levels 1..8 alone the conversion is as stated
C39_LevelsOneToEight ==
    (expCall.op = "expand" /\ expCall.err = "SUCCESS"
         /\ expCall.compact.backoff_level \in 1..8 /\ expCall.compact.failure_count > 0) =>
        /\ expCall.ladder_index = expCall.compact.backoff_level - 1
        /\ expCall.full.failure_count = expCall.compact.failure_count
        /\ expCall.full.next_retry_time = expCall.compact.retry_time_hours * 3600
        /\ expCall.full.backoff_seconds
               = g_default_backoff_intervals[expCall.compact.backoff_level]

\* ------------------------------------------------------------------ properties: tiered endpoint cache

Tiered(st) == st.initialized /\ st.loading_mode = "TIERED"

ValidSlots(cache) == {i \in DOMAIN cache : cache[i].valid}

\* a call of the endpoint loader in tiered mode with a non-null output
TieredLoadStep ==
    /\ Tiered(g_tiered_state)
    /\ tierCall'.op = "load"
    /\ tierCall'.err # "INVALID_PARAM"

\* C40: after any sequence of endpoint loads and cache trims in tiered mode
\* the endpoint cache holds at most 4 valid entries, no two for the same
\* service; a load for a service with a valid entry returns the cached
\* endpoints without calling the platform loader; a failed load leaves every
\* cache entry unchanged; a miss with all 4 slots valid replaces the entry
\* with the oldest last-access time and no other; and after a trim the cache
\* is empty and the next load calls the platform loader.
C40_EndpointCache ==
    /\ [](LET cache == g_tiered_state.endpoint_cache
          IN /\ Cardinality(ValidSlots(cache)) <= ENDPOINT_CACHE_SIZE
             /\ \A i, j \in ValidSlots(cache) :
                    i # j => cache[i].service_index # cache[j].service_index
             /\ (tierCall.op = "trim" /\ g_tiered_state.initialized) =>
                    ValidSlots(cache) = {})
    /\ [][LET cache == g_tiered_state.endpoint_cache
              hits == {i \in ValidSlots(cache) :
                          cache[i].service_index = tierCall'.service_index}
          IN /\ (TieredLoadStep /\ hits # {}) =>
                    /\ ~tierCall'.called
                    /\ tierCall'.err = "SUCCESS"
                    /\ \A i \in hits : tierCall'.out = cache[i].data
             /\ (tierCall'.op = "load" /\ tierCall'.err # "SUCCESS") =>
                    g_tiered_state'.endpoint_cache = cache
             /\ (TieredLoadStep /\ hits = {} /\ tierCall'.err = "SUCCESS"
                     /\ ValidSlots(cache) = DOMAIN cache) =>
                    \E i \in DOMAIN cache :
                        /\ \A j \in DOMAIN cache :
                               cache[i].last_access_time <= cache[j].last_access_time
                        /\ g_tiered_state'.endpoint_cache[i].valid
                        /\ g_tiered_state'.endpoint_cache[i].service_index
                               = tierCall'.service_index
                        /\ g_tiered_state'.endpoint_cache[i].data = tierCall'.out
                        /\ \A j \in DOMAIN cache \ {i} :
                               g_tiered_state'.endpoint_cache[j] = cache[j]
             /\ (TieredLoadStep /\ tierCall.op = "trim"
                     /\ g_tiered_state.platform.load_service_endpoints) =>
                    tierCall'.called]_vars

\* four services cached, the first of them asked for again, then a fifth:
\* the fifth replaces the second slot, the one not used for the longest time
C40_Witness ==
    /\ tierCall.op = "load" /\ tierCall.err = "SUCCESS" /\ tierCall.called
    /\ tierCall.service_index = 4
    /\ tierCall.replaced.valid /\ tierCall.replaced.service_index = 1
    /\ tierCall.slot = 1
    /\ g_tiered_state.endpoint_cache[1].service_index = 4
    /\ g_tiered_state.endpoint_cache[0].service_index = 0
    /\ \A j \in {0, 2, 3} :
           tierCall.replaced.last_access_time
               < g_tiered_state.endpoint_cache[j].last_access_time

\* ------------------------------------------------------------------ properties: filter and sort by location

\* the number of positions of seq among the first n that hold x
CountIn(seq, n, x) == Cardinality({i \in 1 .. n : seq[i] = x})

\* C32: a filtering stage only narrows or reorders: its output is a
\* sub-multiset of its input with every record unaltered, and the array it was
\* given holds the same records after the call as before.  Stated for the
\* filter and sort by location.
C32_FilterLeavesCatalog ==
    \A th \in Sorters :
        sorter[th].pc = "done" =>
            LET before == sorter[th].input
                after == sorter[th].services
            IN /\ \A i \in 1 .. sorter[th].filtered_count :
                      CountIn(after, sorter[th].filtered_count, after[i]) <= CountIn(before, Len(before), after[i])
               /\ Len(after) = Len(before)
               /\ \A i \in 1 .. Len(before) :
                      CountIn(after, Len(after), before[i]) = CountIn(before, Len(before), before[i])

\* C32, the half that holds: the output is a sub-multiset of the input.
C32_OutputIsSubMultiset ==
    \A th \in Sorters :
        sorter[th].pc = "done" =>
            \A i \in 1 .. sorter[th].filtered_count :
                CountIn(sorter[th].services, sorter[th].filtered_count, sorter[th].services[i])
                    <= CountIn(sorter[th].input, Len(sorter[th].input), sorter[th].services[i])

\* what one call returns when it runs alone: the arrays and the count
AloneResults(call) ==
    LET r == FilterInPlaceFrom(call.input, 1, 0, call.user_latitude, call.user_longitude, call.max_distance_km)
    IN IF r.filtered_count > 1
       THEN QsortResults(r.services, r.filtered_count, [latitude |-> call.user_latitude, longitude |-> call.user_longitude])
       ELSE {r.services}

\* C33: read-only lookups that run concurrently on separate buffers each
\* return what they would return alone; two concurrent distance sorts for
\* different positions each order their own list by distance to their own
\* position.
C33_ConcurrentSortsIndependent ==
    \A th \in Sorters :
        sorter[th].pc = "done" => sorter[th].services \in AloneResults(sorter[th])

====
